---- MODULE Spec2Model ----
(***************************************************************************)
(* A model of smart_explore.py: the SMARTGuidelinesClient operations and   *)
(* the reporting driver main().                                            *)
(*                                                                         *)
(* Python values are tagged records [t, v]: None, dict (a function from    *)
(* key strings to values), list (a sequence), int, str, and the            *)
(* pseudo-value Raise(e) for a call that ends by raising exception e.      *)
(* The text of a page is a sequence of code points.                        *)
(***************************************************************************)
EXTENDS Integers, Sequences, FiniteSets, TLC

VARIABLES
  \* ---- process_dak_content called on its own
  dak_pc,      \* "idle", "call" or "returned"
  dak_in,      \* the argument guideline_data
  dak_out,     \* the value returned
  \* ---- parse_implementation_guide_html called on its own
  html_pc,     \* "idle", "call" or "returned"
  html_page,   \* the argument html_content
  html_parts,  \* the pieces of markup and text html_content is written from
  html_info,   \* the value returned by the latest call
  html_prev,   \* the value returned by the call before it
  html_prev_page,  \* the argument of the call before it
  html_runs,   \* the number of calls made
  \* ---- parse_downloads_html called on its own
  dl_pc,       \* "idle", "call" or "returned"
  dl_page,     \* the argument html_content
  dl_anchors,  \* the <a> elements html_content is written from: [href, txt]
  dl_info,     \* the value returned
  \* ---- main()
  pc,                 \* where main is: "idle", "summary", "availability",
                      \* "endpoints", "fetch_json", "json_returned", "fetch_html",
                      \* "html_returned", "fetch_downloads", "next", "done",
                      \* or "crashed" (an exception left main)
  gi,                 \* index in guidelines of the identifier being processed
  processed,          \* the identifiers whose loop body has started, in order
  calls,              \* the client methods main has called for this identifier
  exc,                \* the exception that left main, "" when none
  demo,               \* how the FHIR client demo ended, "" before it
  json_error_caught,  \* whether response.json() fails with a RequestException
  summary,            \* main's local summary
  api_log,            \* the responses to get_guideline_summary's requests
  availability,       \* check_guideline_availability's dict, entry by entry
  probe_log,          \* the responses to its HEAD requests, in order
  op,                 \* the fetch method called last
  cand,               \* index of the candidate URL its loop is at
  reqlog,             \* the requests it made: [url, resp], in order
  fetch_done,         \* whether that call has ended
  ret,                \* the value it returned (Raise(e) when it raised)
  guideline_data, dak_content, html_content, downloads_info   \* main's locals

dakVars == <<dak_pc, dak_in, dak_out>>
htmlVars ==
  <<html_pc, html_page, html_parts, html_info, html_prev, html_prev_page, html_runs>>
mainVars == <<pc, gi, processed, calls, exc, demo, json_error_caught>>
probeVars == <<summary, api_log, availability, probe_log>>
fetchVars == <<op, cand, reqlog, fetch_done, ret>>
dataVars == <<guideline_data, dak_content, html_content, downloads_info>>
drvVars == <<mainVars, probeVars, fetchVars, dataVars>>
dlVars == <<dl_pc, dl_page, dl_anchors, dl_info>>
vars == <<dakVars, htmlVars, drvVars, dlVars>>

----------------------------------------------------------------------------
(* Python values *)

None == [t |-> "None"]
Dict(d) == [t |-> "dict", v |-> d]
List(l) == [t |-> "list", v |-> l]
PyInt(n) == [t |-> "int", v |-> n]
PyStr(x) == [t |-> "str", v |-> x]
Raise(e) == [t |-> "raise", v |-> e]

EmptyDict == <<>>

\* bool(x): None, {}, [], 0 and '' are falsy
Truthy(x) ==
  CASE x.t = "None" -> FALSE
    [] x.t = "dict" -> DOMAIN x.v # {}
    [] x.t = "list" -> Len(x.v) > 0
    [] x.t = "int" -> x.v # 0
    [] x.t = "str" -> x.v # ""
    [] OTHER -> TRUE

\* d.get(key, default) on a dict d
Get(d, key, default) == IF key \in DOMAIN d THEN d[key] ELSE default

----------------------------------------------------------------------------
(* process_dak_content *)

\* one entry of dak_info['dependencies']
DependencyEntry(dep) ==
  [uri |-> Get(dep, "uri", ""), version |-> Get(dep, "version", "")]

\* mutant of ResourceEntry: the name is preferred to the title
ResourceEntryNameFirst(resource) ==
  [type  |-> Get(resource, "resourceType", "Unknown"),
   id    |-> Get(resource, "id", ""),
   title |-> Get(resource, "name", Get(resource, "title", ""))]

\* one entry of dak_info['resources']
ResourceEntry(resource) ==
  [type  |-> Get(resource, "resourceType", "Unknown"),
   id    |-> Get(resource, "id", ""),
   title |-> Get(resource, "title", Get(resource, "name", ""))]

\* mutant of DakGuard: only None is rejected (`if guideline_data is None`)
DakGuardNoneOnly(data) == data.t = "None"

\* the guard `if not guideline_data: return None`
DakGuard(data) == ~Truthy(data)

process_dak_content(data) ==
  IF DakGuard(data) THEN None
  ELSE IF data.t # "dict" THEN Raise("AttributeError")
  ELSE LET d == data.v
           deps == Get(d, "dependsOn", <<>>)
           cont == Get(d, "contained", <<>>)
       IN Dict([title        |-> Get(d, "title", "Unknown Title"),
                version      |-> Get(d, "version", "Unknown Version"),
                description  |-> Get(d, "description", ""),
                status       |-> Get(d, "status", "unknown"),
                date         |-> Get(d, "date", ""),
                publisher    |-> Get(d, "publisher", ""),
                resources    |-> [i \in 1..Len(cont) |-> ResourceEntry(cont[i])],
                dependencies |-> [i \in 1..Len(deps) |-> DependencyEntry(deps[i])]])

----------------------------------------------------------------------------
(* Inputs of process_dak_content: what response.json() may give.  JSON     *)
(* objects with any subset of the keys, and dependsOn / contained lists of *)
(* up to MaxItems items; null, arrays, numbers and strings.                *)

MaxItems == 2

ScalarKeys == {"title", "version", "description", "status", "date", "publisher"}

ScalarValue(k) ==
  CASE k = "title" -> "ANC"
    [] k = "version" -> "1.0.0"
    [] k = "description" -> "Antenatal care"
    [] k = "status" -> "draft"
    [] k = "date" -> "2024-01-01"
    [] k = "publisher" -> "WHO"

DepItems == { [uri |-> "x"], [uri |-> "y", version |-> "2.0"], EmptyDict }

ContainedItems ==
  { [resourceType |-> "ValueSet", id |-> "v1"],
    [resourceType |-> "CodeSystem", id |-> "c1", title |-> "T", name |-> "N"],
    [id |-> "q1", name |-> "N"],
    EmptyDict }

SeqsUpTo(S, n) == UNION { [1..k -> S] : k \in 0..n }

\* a document with scalar keys K, and dependsOn / contained present when
\* hasDeps / hasCont
MakeDoc(K, hasDeps, deps, hasCont, cont) ==
  [k \in K \cup (IF hasDeps THEN {"dependsOn"} ELSE {})
           \cup (IF hasCont THEN {"contained"} ELSE {}) |->
     CASE k = "dependsOn" -> deps
       [] k = "contained" -> cont
       [] OTHER -> ScalarValue(k)]

DakDocs ==
  { MakeDoc(K, hd, deps, hc, cont) :
      K \in SUBSET ScalarKeys,
      hd \in BOOLEAN, deps \in SeqsUpTo(DepItems, MaxItems),
      hc \in BOOLEAN, cont \in SeqsUpTo(ContainedItems, MaxItems) }

\* null, [], ["ANC"], 0, 7, "" and "ANC"
DakScalars ==
  { None, List(<<>>), List(<<"ANC">>), PyInt(0), PyInt(7), PyStr(""), PyStr("ANC") }

DakInputs == DakScalars \cup { Dict(d) : d \in DakDocs }

DakIdle == dak_pc = "idle" /\ dak_in = None /\ dak_out = None

HtmlIdle ==
  /\ html_pc = "idle" /\ html_page = <<>> /\ html_parts = <<>> /\ html_info = None
  /\ html_prev = None /\ html_prev_page = <<>> /\ html_runs = 0

DlIdle == dl_pc = "idle" /\ dl_page = <<>> /\ dl_anchors = <<>> /\ dl_info = None

DrvIdle ==
  /\ pc = "idle" /\ gi = 0 /\ processed = <<>> /\ calls = <<>> /\ exc = ""
  /\ demo = "" /\ json_error_caught = FALSE
  /\ summary = None /\ api_log = <<>> /\ availability = EmptyDict /\ probe_log = <<>>
  /\ op = "" /\ cand = 0 /\ reqlog = <<>> /\ fetch_done = FALSE /\ ret = None
  /\ guideline_data = None /\ dak_content = None /\ html_content = None
  /\ downloads_info = None

DakInit ==
  /\ dak_pc = "call"
  /\ dak_in \in DakInputs
  /\ dak_out = None
  /\ HtmlIdle
  /\ DrvIdle
  /\ DlIdle

\* smart_client.process_dak_content(guideline_data)
ProcessDakContent ==
  /\ dak_pc = "call"
  /\ dak_out' = process_dak_content(dak_in)
  /\ dak_pc' = "returned"
  /\ UNCHANGED <<dak_in, htmlVars, drvVars, dlVars>>

DakNext == ProcessDakContent

SpecDak == DakInit /\ [][DakNext]_vars

----------------------------------------------------------------------------
(* C7: for every non-empty JSON document process_dak_content returns a     *)
(* record: each scalar field is the document's value or its default; the   *)
(* dependencies list has one {uri, version} entry per dependsOn item and   *)
(* the resources list one {type, id, title} entry per contained item       *)
(* (title = title, else name, else ''), in document order and of the same  *)
(* length as the source lists.                                             *)

DakDefault(k) ==
  CASE k = "title" -> "Unknown Title"
    [] k = "version" -> "Unknown Version"
    [] k = "status" -> "unknown"
    [] OTHER -> ""

SrcList(d, k) == IF k \in DOMAIN d THEN d[k] ELSE <<>>

C7_DakSummaryMirrorsDocument ==
  (dak_pc = "returned" /\ dak_in.t = "dict" /\ DOMAIN dak_in.v # {}) =>
    LET d == dak_in.v
        deps == SrcList(d, "dependsOn")
        cont == SrcList(d, "contained")
    IN /\ dak_out.t = "dict"
       /\ \A k \in ScalarKeys :
            dak_out.v[k] = (IF k \in DOMAIN d THEN d[k] ELSE DakDefault(k))
       /\ Len(dak_out.v.dependencies) = Len(deps)
       /\ \A i \in 1..Len(deps) :
            /\ DOMAIN dak_out.v.dependencies[i] = {"uri", "version"}
            /\ dak_out.v.dependencies[i].uri =
                 (IF "uri" \in DOMAIN deps[i] THEN deps[i].uri ELSE "")
            /\ dak_out.v.dependencies[i].version =
                 (IF "version" \in DOMAIN deps[i] THEN deps[i].version ELSE "")
       /\ Len(dak_out.v.resources) = Len(cont)
       /\ \A i \in 1..Len(cont) :
            /\ DOMAIN dak_out.v.resources[i] = {"type", "id", "title"}
            /\ dak_out.v.resources[i].id =
                 (IF "id" \in DOMAIN cont[i] THEN cont[i].id ELSE "")
            /\ dak_out.v.resources[i].title =
                 (IF "title" \in DOMAIN cont[i] THEN cont[i].title
                  ELSE IF "name" \in DOMAIN cont[i] THEN cont[i].name ELSE "")
            /\ ("resourceType" \in DOMAIN cont[i] =>
                  dak_out.v.resources[i].type = cont[i].resourceType)

\* the spec's example: {"title": "ANC", "dependsOn": [{"uri": "x"}],
\* "contained": [{"resourceType": "ValueSet", "id": "v1"}]} has been summarised
C7_Witness ==
  /\ dak_pc = "returned"
  /\ dak_in = Dict([title |-> "ANC", dependsOn |-> <<[uri |-> "x"]>>,
                    contained |-> <<[resourceType |-> "ValueSet", id |-> "v1"]>>])
  /\ dak_out.t = "dict"
  /\ dak_out.v.version = "Unknown Version"
  /\ dak_out.v.dependencies = <<[uri |-> "x", version |-> ""]>>
  /\ dak_out.v.resources = <<[type |-> "ValueSet", id |-> "v1", title |-> ""]>>

(* C8: given a null or empty document process_dak_content returns None,    *)
(* never a record of defaults.                                             *)
C8_EmptyDocumentGivesNone ==
  (dak_pc = "returned" /\ (dak_in = None \/ dak_in = Dict(EmptyDict))) =>
    dak_out = None

C8_Witness ==
  dak_pc = "returned" /\ dak_in = Dict(EmptyDict) /\ dak_out = None

----------------------------------------------------------------------------
(* Text.  A Python str is a sequence of code points, so that len(), the    *)
(* character classes of the regular expressions, str.lower() and the       *)
(* order used by sorted() are the ones the code uses.  The tables of the   *)
(* Unicode properties are those of the character database of CPython 3.11. *)

MinOf(S) == CHOOSE x \in S : \A y \in S : x <= y
MaxOf(S) == CHOOSE x \in S : \A y \in S : x >= y

\* c lies in one of the ranges <<first, last, ...>>
InRanges(c, ranges) == \E r \in ranges : r[1] <= c /\ c <= r[2]

\* str.isspace(): the characters \s matches and str.strip() removes
SpaceChars ==
  {9, 10, 11, 12, 13, 28, 29, 30, 31, 32, 133, 160, 5760, 8192, 8193,
   8194, 8195, 8196, 8197, 8198, 8199, 8200, 8201, 8202, 8232, 8233, 8239, 8287, 12288}

\* the ranges <<first, last>> of the characters above 127 that \w matches
WordRanges ==
  { <<170,170>>, <<178,179>>, <<181,181>>, <<185,186>>, <<188,190>>,
    <<192,214>>, <<216,246>>, <<248,705>>, <<710,721>>, <<736,740>>,
    <<748,748>>, <<750,750>>, <<880,884>>, <<886,887>>, <<890,893>>,
    <<895,895>>, <<902,902>>, <<904,906>>, <<908,908>>, <<910,929>>,
    <<931,1013>>, <<1015,1153>>, <<1162,1327>>, <<1329,1366>>,
    <<1369,1369>>, <<1376,1416>>, <<1488,1514>>, <<1519,1522>>,
    <<1568,1610>>, <<1632,1641>>, <<1646,1647>>, <<1649,1747>>,
    <<1749,1749>>, <<1765,1766>>, <<1774,1788>>, <<1791,1791>>,
    <<1808,1808>>, <<1810,1839>>, <<1869,1957>>, <<1969,1969>>,
    <<1984,2026>>, <<2036,2037>>, <<2042,2042>>, <<2048,2069>>,
    <<2074,2074>>, <<2084,2084>>, <<2088,2088>>, <<2112,2136>>,
    <<2144,2154>>, <<2160,2183>>, <<2185,2190>>, <<2208,2249>>,
    <<2308,2361>>, <<2365,2365>>, <<2384,2384>>, <<2392,2401>>,
    <<2406,2415>>, <<2417,2432>>, <<2437,2444>>, <<2447,2448>>,
    <<2451,2472>>, <<2474,2480>>, <<2482,2482>>, <<2486,2489>>,
    <<2493,2493>>, <<2510,2510>>, <<2524,2525>>, <<2527,2529>>,
    <<2534,2545>>, <<2548,2553>>, <<2556,2556>>, <<2565,2570>>,
    <<2575,2576>>, <<2579,2600>>, <<2602,2608>>, <<2610,2611>>,
    <<2613,2614>>, <<2616,2617>>, <<2649,2652>>, <<2654,2654>>,
    <<2662,2671>>, <<2674,2676>>, <<2693,2701>>, <<2703,2705>>,
    <<2707,2728>>, <<2730,2736>>, <<2738,2739>>, <<2741,2745>>,
    <<2749,2749>>, <<2768,2768>>, <<2784,2785>>, <<2790,2799>>,
    <<2809,2809>>, <<2821,2828>>, <<2831,2832>>, <<2835,2856>>,
    <<2858,2864>>, <<2866,2867>>, <<2869,2873>>, <<2877,2877>>,
    <<2908,2909>>, <<2911,2913>>, <<2918,2927>>, <<2929,2935>>,
    <<2947,2947>>, <<2949,2954>>, <<2958,2960>>, <<2962,2965>>,
    <<2969,2970>>, <<2972,2972>>, <<2974,2975>>, <<2979,2980>>,
    <<2984,2986>>, <<2990,3001>>, <<3024,3024>>, <<3046,3058>>,
    <<3077,3084>>, <<3086,3088>>, <<3090,3112>>, <<3114,3129>>,
    <<3133,3133>>, <<3160,3162>>, <<3165,3165>>, <<3168,3169>>,
    <<3174,3183>>, <<3192,3198>>, <<3200,3200>>, <<3205,3212>>,
    <<3214,3216>>, <<3218,3240>>, <<3242,3251>>, <<3253,3257>>,
    <<3261,3261>>, <<3293,3294>>, <<3296,3297>>, <<3302,3311>>,
    <<3313,3314>>, <<3332,3340>>, <<3342,3344>>, <<3346,3386>>,
    <<3389,3389>>, <<3406,3406>>, <<3412,3414>>, <<3416,3425>>,
    <<3430,3448>>, <<3450,3455>>, <<3461,3478>>, <<3482,3505>>,
    <<3507,3515>>, <<3517,3517>>, <<3520,3526>>, <<3558,3567>>,
    <<3585,3632>>, <<3634,3635>>, <<3648,3654>>, <<3664,3673>>,
    <<3713,3714>>, <<3716,3716>>, <<3718,3722>>, <<3724,3747>>,
    <<3749,3749>>, <<3751,3760>>, <<3762,3763>>, <<3773,3773>>,
    <<3776,3780>>, <<3782,3782>>, <<3792,3801>>, <<3804,3807>>,
    <<3840,3840>>, <<3872,3891>>, <<3904,3911>>, <<3913,3948>>,
    <<3976,3980>>, <<4096,4138>>, <<4159,4169>>, <<4176,4181>>,
    <<4186,4189>>, <<4193,4193>>, <<4197,4198>>, <<4206,4208>>,
    <<4213,4225>>, <<4238,4238>>, <<4240,4249>>, <<4256,4293>>,
    <<4295,4295>>, <<4301,4301>>, <<4304,4346>>, <<4348,4680>>,
    <<4682,4685>>, <<4688,4694>>, <<4696,4696>>, <<4698,4701>>,
    <<4704,4744>>, <<4746,4749>>, <<4752,4784>>, <<4786,4789>>,
    <<4792,4798>>, <<4800,4800>>, <<4802,4805>>, <<4808,4822>>,
    <<4824,4880>>, <<4882,4885>>, <<4888,4954>>, <<4969,4988>>,
    <<4992,5007>>, <<5024,5109>>, <<5112,5117>>, <<5121,5740>>,
    <<5743,5759>>, <<5761,5786>>, <<5792,5866>>, <<5870,5880>>,
    <<5888,5905>>, <<5919,5937>>, <<5952,5969>>, <<5984,5996>>,
    <<5998,6000>>, <<6016,6067>>, <<6103,6103>>, <<6108,6108>>,
    <<6112,6121>>, <<6128,6137>>, <<6160,6169>>, <<6176,6264>>,
    <<6272,6276>>, <<6279,6312>>, <<6314,6314>>, <<6320,6389>>,
    <<6400,6430>>, <<6470,6509>>, <<6512,6516>>, <<6528,6571>>,
    <<6576,6601>>, <<6608,6618>>, <<6656,6678>>, <<6688,6740>>,
    <<6784,6793>>, <<6800,6809>>, <<6823,6823>>, <<6917,6963>>,
    <<6981,6988>>, <<6992,7001>>, <<7043,7072>>, <<7086,7141>>,
    <<7168,7203>>, <<7232,7241>>, <<7245,7293>>, <<7296,7304>>,
    <<7312,7354>>, <<7357,7359>>, <<7401,7404>>, <<7406,7411>>,
    <<7413,7414>>, <<7418,7418>>, <<7424,7615>>, <<7680,7957>>,
    <<7960,7965>>, <<7968,8005>>, <<8008,8013>>, <<8016,8023>>,
    <<8025,8025>>, <<8027,8027>>, <<8029,8029>>, <<8031,8061>>,
    <<8064,8116>>, <<8118,8124>>, <<8126,8126>>, <<8130,8132>>,
    <<8134,8140>>, <<8144,8147>>, <<8150,8155>>, <<8160,8172>>,
    <<8178,8180>>, <<8182,8188>>, <<8304,8305>>, <<8308,8313>>,
    <<8319,8329>>, <<8336,8348>>, <<8450,8450>>, <<8455,8455>>,
    <<8458,8467>>, <<8469,8469>>, <<8473,8477>>, <<8484,8484>>,
    <<8486,8486>>, <<8488,8488>>, <<8490,8493>>, <<8495,8505>>,
    <<8508,8511>>, <<8517,8521>>, <<8526,8526>>, <<8528,8585>>,
    <<9312,9371>>, <<9450,9471>>, <<10102,10131>>, <<11264,11492>>,
    <<11499,11502>>, <<11506,11507>>, <<11517,11517>>, <<11520,11557>>,
    <<11559,11559>>, <<11565,11565>>, <<11568,11623>>, <<11631,11631>>,
    <<11648,11670>>, <<11680,11686>>, <<11688,11694>>, <<11696,11702>>,
    <<11704,11710>>, <<11712,11718>>, <<11720,11726>>, <<11728,11734>>,
    <<11736,11742>>, <<11823,11823>>, <<12293,12295>>, <<12321,12329>>,
    <<12337,12341>>, <<12344,12348>>, <<12353,12438>>, <<12445,12447>>,
    <<12449,12538>>, <<12540,12543>>, <<12549,12591>>, <<12593,12686>>,
    <<12690,12693>>, <<12704,12735>>, <<12784,12799>>, <<12832,12841>>,
    <<12872,12879>>, <<12881,12895>>, <<12928,12937>>, <<12977,12991>>,
    <<13312,19903>>, <<19968,42124>>, <<42192,42237>>, <<42240,42508>>,
    <<42512,42539>>, <<42560,42606>>, <<42623,42653>>, <<42656,42735>>,
    <<42775,42783>>, <<42786,42888>>, <<42891,42954>>, <<42960,42961>>,
    <<42963,42963>>, <<42965,42969>>, <<42994,43009>>, <<43011,43013>>,
    <<43015,43018>>, <<43020,43042>>, <<43056,43061>>, <<43072,43123>>,
    <<43138,43187>>, <<43216,43225>>, <<43250,43255>>, <<43259,43259>>,
    <<43261,43262>>, <<43264,43301>>, <<43312,43334>>, <<43360,43388>>,
    <<43396,43442>>, <<43471,43481>>, <<43488,43492>>, <<43494,43518>>,
    <<43520,43560>>, <<43584,43586>>, <<43588,43595>>, <<43600,43609>>,
    <<43616,43638>>, <<43642,43642>>, <<43646,43695>>, <<43697,43697>>,
    <<43701,43702>>, <<43705,43709>>, <<43712,43712>>, <<43714,43714>>,
    <<43739,43741>>, <<43744,43754>>, <<43762,43764>>, <<43777,43782>>,
    <<43785,43790>>, <<43793,43798>>, <<43808,43814>>, <<43816,43822>>,
    <<43824,43866>>, <<43868,43881>>, <<43888,44002>>, <<44016,44025>>,
    <<44032,55203>>, <<55216,55238>>, <<55243,55291>>, <<63744,64109>>,
    <<64112,64217>>, <<64256,64262>>, <<64275,64279>>, <<64285,64285>>,
    <<64287,64296>>, <<64298,64310>>, <<64312,64316>>, <<64318,64318>>,
    <<64320,64321>>, <<64323,64324>>, <<64326,64433>>, <<64467,64829>>,
    <<64848,64911>>, <<64914,64967>>, <<65008,65019>>, <<65136,65140>>,
    <<65142,65276>>, <<65296,65305>>, <<65313,65338>>, <<65345,65370>>,
    <<65382,65470>>, <<65474,65479>>, <<65482,65487>>, <<65490,65495>>,
    <<65498,65500>>, <<65536,65547>>, <<65549,65574>>, <<65576,65594>>,
    <<65596,65597>>, <<65599,65613>>, <<65616,65629>>, <<65664,65786>>,
    <<65799,65843>>, <<65856,65912>>, <<65930,65931>>, <<66176,66204>>,
    <<66208,66256>>, <<66273,66299>>, <<66304,66339>>, <<66349,66378>>,
    <<66384,66421>>, <<66432,66461>>, <<66464,66499>>, <<66504,66511>>,
    <<66513,66517>>, <<66560,66717>>, <<66720,66729>>, <<66736,66771>>,
    <<66776,66811>>, <<66816,66855>>, <<66864,66915>>, <<66928,66938>>,
    <<66940,66954>>, <<66956,66962>>, <<66964,66965>>, <<66967,66977>>,
    <<66979,66993>>, <<66995,67001>>, <<67003,67004>>, <<67072,67382>>,
    <<67392,67413>>, <<67424,67431>>, <<67456,67461>>, <<67463,67504>>,
    <<67506,67514>>, <<67584,67589>>, <<67592,67592>>, <<67594,67637>>,
    <<67639,67640>>, <<67644,67644>>, <<67647,67669>>, <<67672,67702>>,
    <<67705,67742>>, <<67751,67759>>, <<67808,67826>>, <<67828,67829>>,
    <<67835,67867>>, <<67872,67897>>, <<67968,68023>>, <<68028,68047>>,
    <<68050,68096>>, <<68112,68115>>, <<68117,68119>>, <<68121,68149>>,
    <<68160,68168>>, <<68192,68222>>, <<68224,68255>>, <<68288,68295>>,
    <<68297,68324>>, <<68331,68335>>, <<68352,68405>>, <<68416,68437>>,
    <<68440,68466>>, <<68472,68497>>, <<68521,68527>>, <<68608,68680>>,
    <<68736,68786>>, <<68800,68850>>, <<68858,68899>>, <<68912,68921>>,
    <<69216,69246>>, <<69248,69289>>, <<69296,69297>>, <<69376,69415>>,
    <<69424,69445>>, <<69457,69460>>, <<69488,69505>>, <<69552,69579>>,
    <<69600,69622>>, <<69635,69687>>, <<69714,69743>>, <<69745,69746>>,
    <<69749,69749>>, <<69763,69807>>, <<69840,69864>>, <<69872,69881>>,
    <<69891,69926>>, <<69942,69951>>, <<69956,69956>>, <<69959,69959>>,
    <<69968,70002>>, <<70006,70006>>, <<70019,70066>>, <<70081,70084>>,
    <<70096,70106>>, <<70108,70108>>, <<70113,70132>>, <<70144,70161>>,
    <<70163,70187>>, <<70272,70278>>, <<70280,70280>>, <<70282,70285>>,
    <<70287,70301>>, <<70303,70312>>, <<70320,70366>>, <<70384,70393>>,
    <<70405,70412>>, <<70415,70416>>, <<70419,70440>>, <<70442,70448>>,
    <<70450,70451>>, <<70453,70457>>, <<70461,70461>>, <<70480,70480>>,
    <<70493,70497>>, <<70656,70708>>, <<70727,70730>>, <<70736,70745>>,
    <<70751,70753>>, <<70784,70831>>, <<70852,70853>>, <<70855,70855>>,
    <<70864,70873>>, <<71040,71086>>, <<71128,71131>>, <<71168,71215>>,
    <<71236,71236>>, <<71248,71257>>, <<71296,71338>>, <<71352,71352>>,
    <<71360,71369>>, <<71424,71450>>, <<71472,71483>>, <<71488,71494>>,
    <<71680,71723>>, <<71840,71922>>, <<71935,71942>>, <<71945,71945>>,
    <<71948,71955>>, <<71957,71958>>, <<71960,71983>>, <<71999,71999>>,
    <<72001,72001>>, <<72016,72025>>, <<72096,72103>>, <<72106,72144>>,
    <<72161,72161>>, <<72163,72163>>, <<72192,72192>>, <<72203,72242>>,
    <<72250,72250>>, <<72272,72272>>, <<72284,72329>>, <<72349,72349>>,
    <<72368,72440>>, <<72704,72712>>, <<72714,72750>>, <<72768,72768>>,
    <<72784,72812>>, <<72818,72847>>, <<72960,72966>>, <<72968,72969>>,
    <<72971,73008>>, <<73030,73030>>, <<73040,73049>>, <<73056,73061>>,
    <<73063,73064>>, <<73066,73097>>, <<73112,73112>>, <<73120,73129>>,
    <<73440,73458>>, <<73648,73648>>, <<73664,73684>>, <<73728,74649>>,
    <<74752,74862>>, <<74880,75075>>, <<77712,77808>>, <<77824,78894>>,
    <<82944,83526>>, <<92160,92728>>, <<92736,92766>>, <<92768,92777>>,
    <<92784,92862>>, <<92864,92873>>, <<92880,92909>>, <<92928,92975>>,
    <<92992,92995>>, <<93008,93017>>, <<93019,93025>>, <<93027,93047>>,
    <<93053,93071>>, <<93760,93846>>, <<93952,94026>>, <<94032,94032>>,
    <<94099,94111>>, <<94176,94177>>, <<94179,94179>>, <<94208,100343>>,
    <<100352,101589>>, <<101632,101640>>, <<110576,110579>>,
    <<110581,110587>>, <<110589,110590>>, <<110592,110882>>,
    <<110928,110930>>, <<110948,110951>>, <<110960,111355>>,
    <<113664,113770>>, <<113776,113788>>, <<113792,113800>>,
    <<113808,113817>>, <<119520,119539>>, <<119648,119672>>,
    <<119808,119892>>, <<119894,119964>>, <<119966,119967>>,
    <<119970,119970>>, <<119973,119974>>, <<119977,119980>>,
    <<119982,119993>>, <<119995,119995>>, <<119997,120003>>,
    <<120005,120069>>, <<120071,120074>>, <<120077,120084>>,
    <<120086,120092>>, <<120094,120121>>, <<120123,120126>>,
    <<120128,120132>>, <<120134,120134>>, <<120138,120144>>,
    <<120146,120485>>, <<120488,120512>>, <<120514,120538>>,
    <<120540,120570>>, <<120572,120596>>, <<120598,120628>>,
    <<120630,120654>>, <<120656,120686>>, <<120688,120712>>,
    <<120714,120744>>, <<120746,120770>>, <<120772,120779>>,
    <<120782,120831>>, <<122624,122654>>, <<123136,123180>>,
    <<123191,123197>>, <<123200,123209>>, <<123214,123214>>,
    <<123536,123565>>, <<123584,123627>>, <<123632,123641>>,
    <<124896,124902>>, <<124904,124907>>, <<124909,124910>>,
    <<124912,124926>>, <<124928,125124>>, <<125127,125135>>,
    <<125184,125251>>, <<125259,125259>>, <<125264,125273>>,
    <<126065,126123>>, <<126125,126127>>, <<126129,126132>>,
    <<126209,126253>>, <<126255,126269>>, <<126464,126467>>,
    <<126469,126495>>, <<126497,126498>>, <<126500,126500>>,
    <<126503,126503>>, <<126505,126514>>, <<126516,126519>>,
    <<126521,126521>>, <<126523,126523>>, <<126530,126530>>,
    <<126535,126535>>, <<126537,126537>>, <<126539,126539>>,
    <<126541,126543>>, <<126545,126546>>, <<126548,126548>>,
    <<126551,126551>>, <<126553,126553>>, <<126555,126555>>,
    <<126557,126557>>, <<126559,126559>>, <<126561,126562>>,
    <<126564,126564>>, <<126567,126570>>, <<126572,126578>>,
    <<126580,126583>>, <<126585,126588>>, <<126590,126590>>,
    <<126592,126601>>, <<126603,126619>>, <<126625,126627>>,
    <<126629,126633>>, <<126635,126651>>, <<127232,127244>>,
    <<130032,130041>>, <<131072,173791>>, <<173824,177976>>,
    <<177984,178205>>, <<178208,183969>>, <<183984,191456>>,
    <<194560,195101>>, <<196608,201546>> }

\* str.lower() above 127: <<first, last, step, offset>> maps every step-th
\* character of first..last to itself plus offset
LowerRuns ==
  { <<192,214,1,32>>, <<216,222,1,32>>, <<256,302,2,1>>, <<306,310,2,1>>,
    <<313,327,2,1>>, <<330,374,2,1>>, <<376,376,1,-121>>, <<377,381,2,1>>,
    <<385,385,1,210>>, <<386,388,2,1>>, <<390,390,1,206>>, <<391,391,1,1>>,
    <<393,394,1,205>>, <<395,395,1,1>>, <<398,398,1,79>>, <<399,399,1,202>>,
    <<400,400,1,203>>, <<401,401,1,1>>, <<403,403,1,205>>,
    <<404,404,1,207>>, <<406,406,1,211>>, <<407,407,1,209>>,
    <<408,408,1,1>>, <<412,412,1,211>>, <<413,413,1,213>>,
    <<415,415,1,214>>, <<416,420,2,1>>, <<422,422,1,218>>, <<423,423,1,1>>,
    <<425,425,1,218>>, <<428,428,1,1>>, <<430,430,1,218>>, <<431,431,1,1>>,
    <<433,434,1,217>>, <<435,437,2,1>>, <<439,439,1,219>>, <<440,440,1,1>>,
    <<444,444,1,1>>, <<452,452,1,2>>, <<453,453,1,1>>, <<455,455,1,2>>,
    <<456,456,1,1>>, <<458,458,1,2>>, <<459,475,2,1>>, <<478,494,2,1>>,
    <<497,497,1,2>>, <<498,500,2,1>>, <<502,502,1,-97>>, <<503,503,1,-56>>,
    <<504,542,2,1>>, <<544,544,1,-130>>, <<546,562,2,1>>,
    <<570,570,1,10795>>, <<571,571,1,1>>, <<573,573,1,-163>>,
    <<574,574,1,10792>>, <<577,577,1,1>>, <<579,579,1,-195>>,
    <<580,580,1,69>>, <<581,581,1,71>>, <<582,590,2,1>>, <<880,882,2,1>>,
    <<886,886,1,1>>, <<895,895,1,116>>, <<902,902,1,38>>, <<904,906,1,37>>,
    <<908,908,1,64>>, <<910,911,1,63>>, <<913,929,1,32>>, <<931,939,1,32>>,
    <<975,975,1,8>>, <<984,1006,2,1>>, <<1012,1012,1,-60>>,
    <<1015,1015,1,1>>, <<1017,1017,1,-7>>, <<1018,1018,1,1>>,
    <<1021,1023,1,-130>>, <<1024,1039,1,80>>, <<1040,1071,1,32>>,
    <<1120,1152,2,1>>, <<1162,1214,2,1>>, <<1216,1216,1,15>>,
    <<1217,1229,2,1>>, <<1232,1326,2,1>>, <<1329,1366,1,48>>,
    <<4256,4293,1,7264>>, <<4295,4295,1,7264>>, <<4301,4301,1,7264>>,
    <<5024,5103,1,38864>>, <<5104,5109,1,8>>, <<7312,7354,1,-3008>>,
    <<7357,7359,1,-3008>>, <<7680,7828,2,1>>, <<7838,7838,1,-7615>>,
    <<7840,7934,2,1>>, <<7944,7951,1,-8>>, <<7960,7965,1,-8>>,
    <<7976,7983,1,-8>>, <<7992,7999,1,-8>>, <<8008,8013,1,-8>>,
    <<8025,8025,1,-8>>, <<8027,8027,1,-8>>, <<8029,8029,1,-8>>,
    <<8031,8031,1,-8>>, <<8040,8047,1,-8>>, <<8072,8079,1,-8>>,
    <<8088,8095,1,-8>>, <<8104,8111,1,-8>>, <<8120,8121,1,-8>>,
    <<8122,8123,1,-74>>, <<8124,8124,1,-9>>, <<8136,8139,1,-86>>,
    <<8140,8140,1,-9>>, <<8152,8153,1,-8>>, <<8154,8155,1,-100>>,
    <<8168,8169,1,-8>>, <<8170,8171,1,-112>>, <<8172,8172,1,-7>>,
    <<8184,8185,1,-128>>, <<8186,8187,1,-126>>, <<8188,8188,1,-9>>,
    <<8486,8486,1,-7517>>, <<8490,8490,1,-8383>>, <<8491,8491,1,-8262>>,
    <<8498,8498,1,28>>, <<8544,8559,1,16>>, <<8579,8579,1,1>>,
    <<9398,9423,1,26>>, <<11264,11311,1,48>>, <<11360,11360,1,1>>,
    <<11362,11362,1,-10743>>, <<11363,11363,1,-3814>>,
    <<11364,11364,1,-10727>>, <<11367,11371,2,1>>, <<11373,11373,1,-10780>>,
    <<11374,11374,1,-10749>>, <<11375,11375,1,-10783>>,
    <<11376,11376,1,-10782>>, <<11378,11378,1,1>>, <<11381,11381,1,1>>,
    <<11390,11391,1,-10815>>, <<11392,11490,2,1>>, <<11499,11501,2,1>>,
    <<11506,11506,1,1>>, <<42560,42604,2,1>>, <<42624,42650,2,1>>,
    <<42786,42798,2,1>>, <<42802,42862,2,1>>, <<42873,42875,2,1>>,
    <<42877,42877,1,-35332>>, <<42878,42886,2,1>>, <<42891,42891,1,1>>,
    <<42893,42893,1,-42280>>, <<42896,42898,2,1>>, <<42902,42920,2,1>>,
    <<42922,42922,1,-42308>>, <<42923,42923,1,-42319>>,
    <<42924,42924,1,-42315>>, <<42925,42925,1,-42305>>,
    <<42926,42926,1,-42308>>, <<42928,42928,1,-42258>>,
    <<42929,42929,1,-42282>>, <<42930,42930,1,-42261>>,
    <<42931,42931,1,928>>, <<42932,42946,2,1>>, <<42948,42948,1,-48>>,
    <<42949,42949,1,-42307>>, <<42950,42950,1,-35384>>, <<42951,42953,2,1>>,
    <<42960,42960,1,1>>, <<42966,42968,2,1>>, <<42997,42997,1,1>>,
    <<65313,65338,1,32>>, <<66560,66599,1,40>>, <<66736,66771,1,40>>,
    <<66928,66938,1,39>>, <<66940,66954,1,39>>, <<66956,66962,1,39>>,
    <<66964,66965,1,39>>, <<68736,68786,1,64>>, <<71840,71871,1,32>>,
    <<93760,93791,1,32>>, <<125184,125217,1,34>> }

\* the ranges of the cased characters that are not case-ignorable
CasedRanges ==
  { <<65,90>>, <<97,122>>, <<170,170>>, <<181,181>>, <<186,186>>,
    <<192,214>>, <<216,246>>, <<248,442>>, <<444,447>>, <<452,659>>,
    <<661,687>>, <<880,883>>, <<886,887>>, <<891,893>>, <<895,895>>,
    <<902,902>>, <<904,906>>, <<908,908>>, <<910,929>>, <<931,1013>>,
    <<1015,1153>>, <<1162,1327>>, <<1329,1366>>, <<1376,1416>>,
    <<4256,4293>>, <<4295,4295>>, <<4301,4301>>, <<4304,4346>>,
    <<4349,4351>>, <<5024,5109>>, <<5112,5117>>, <<7296,7304>>,
    <<7312,7354>>, <<7357,7359>>, <<7424,7467>>, <<7531,7543>>,
    <<7545,7578>>, <<7680,7957>>, <<7960,7965>>, <<7968,8005>>,
    <<8008,8013>>, <<8016,8023>>, <<8025,8025>>, <<8027,8027>>,
    <<8029,8029>>, <<8031,8061>>, <<8064,8116>>, <<8118,8124>>,
    <<8126,8126>>, <<8130,8132>>, <<8134,8140>>, <<8144,8147>>,
    <<8150,8155>>, <<8160,8172>>, <<8178,8180>>, <<8182,8188>>,
    <<8450,8450>>, <<8455,8455>>, <<8458,8467>>, <<8469,8469>>,
    <<8473,8477>>, <<8484,8484>>, <<8486,8486>>, <<8488,8488>>,
    <<8490,8493>>, <<8495,8500>>, <<8505,8505>>, <<8508,8511>>,
    <<8517,8521>>, <<8526,8526>>, <<8544,8575>>, <<8579,8580>>,
    <<9398,9449>>, <<11264,11387>>, <<11390,11492>>, <<11499,11502>>,
    <<11506,11507>>, <<11520,11557>>, <<11559,11559>>, <<11565,11565>>,
    <<42560,42605>>, <<42624,42651>>, <<42786,42863>>, <<42865,42887>>,
    <<42891,42894>>, <<42896,42954>>, <<42960,42961>>, <<42963,42963>>,
    <<42965,42969>>, <<42997,42998>>, <<43002,43002>>, <<43824,43866>>,
    <<43872,43880>>, <<43888,43967>>, <<64256,64262>>, <<64275,64279>>,
    <<65313,65338>>, <<65345,65370>>, <<66560,66639>>, <<66736,66771>>,
    <<66776,66811>>, <<66928,66938>>, <<66940,66954>>, <<66956,66962>>,
    <<66964,66965>>, <<66967,66977>>, <<66979,66993>>, <<66995,67001>>,
    <<67003,67004>>, <<68736,68786>>, <<68800,68850>>, <<71840,71903>>,
    <<93760,93823>>, <<119808,119892>>, <<119894,119964>>,
    <<119966,119967>>, <<119970,119970>>, <<119973,119974>>,
    <<119977,119980>>, <<119982,119993>>, <<119995,119995>>,
    <<119997,120003>>, <<120005,120069>>, <<120071,120074>>,
    <<120077,120084>>, <<120086,120092>>, <<120094,120121>>,
    <<120123,120126>>, <<120128,120132>>, <<120134,120134>>,
    <<120138,120144>>, <<120146,120485>>, <<120488,120512>>,
    <<120514,120538>>, <<120540,120570>>, <<120572,120596>>,
    <<120598,120628>>, <<120630,120654>>, <<120656,120686>>,
    <<120688,120712>>, <<120714,120744>>, <<120746,120770>>,
    <<120772,120779>>, <<122624,122633>>, <<122635,122654>>,
    <<125184,125251>>, <<127280,127305>>, <<127312,127337>>,
    <<127344,127369>> }

\* the ranges of the case-ignorable characters
CaseIgnorableRanges ==
  { <<39,39>>, <<46,46>>, <<58,58>>, <<94,94>>, <<96,96>>, <<168,168>>,
    <<173,173>>, <<175,175>>, <<180,180>>, <<183,184>>, <<688,879>>,
    <<884,885>>, <<890,890>>, <<900,901>>, <<903,903>>, <<1155,1161>>,
    <<1369,1369>>, <<1375,1375>>, <<1425,1469>>, <<1471,1471>>,
    <<1473,1474>>, <<1476,1477>>, <<1479,1479>>, <<1524,1524>>,
    <<1536,1541>>, <<1552,1562>>, <<1564,1564>>, <<1600,1600>>,
    <<1611,1631>>, <<1648,1648>>, <<1750,1757>>, <<1759,1768>>,
    <<1770,1773>>, <<1807,1807>>, <<1809,1809>>, <<1840,1866>>,
    <<1958,1968>>, <<2027,2037>>, <<2042,2042>>, <<2045,2045>>,
    <<2070,2093>>, <<2137,2139>>, <<2184,2184>>, <<2192,2193>>,
    <<2200,2207>>, <<2249,2306>>, <<2362,2362>>, <<2364,2364>>,
    <<2369,2376>>, <<2381,2381>>, <<2385,2391>>, <<2402,2403>>,
    <<2417,2417>>, <<2433,2433>>, <<2492,2492>>, <<2497,2500>>,
    <<2509,2509>>, <<2530,2531>>, <<2558,2558>>, <<2561,2562>>,
    <<2620,2620>>, <<2625,2626>>, <<2631,2632>>, <<2635,2637>>,
    <<2641,2641>>, <<2672,2673>>, <<2677,2677>>, <<2689,2690>>,
    <<2748,2748>>, <<2753,2757>>, <<2759,2760>>, <<2765,2765>>,
    <<2786,2787>>, <<2810,2815>>, <<2817,2817>>, <<2876,2876>>,
    <<2879,2879>>, <<2881,2884>>, <<2893,2893>>, <<2901,2902>>,
    <<2914,2915>>, <<2946,2946>>, <<3008,3008>>, <<3021,3021>>,
    <<3072,3072>>, <<3076,3076>>, <<3132,3132>>, <<3134,3136>>,
    <<3142,3144>>, <<3146,3149>>, <<3157,3158>>, <<3170,3171>>,
    <<3201,3201>>, <<3260,3260>>, <<3263,3263>>, <<3270,3270>>,
    <<3276,3277>>, <<3298,3299>>, <<3328,3329>>, <<3387,3388>>,
    <<3393,3396>>, <<3405,3405>>, <<3426,3427>>, <<3457,3457>>,
    <<3530,3530>>, <<3538,3540>>, <<3542,3542>>, <<3633,3633>>,
    <<3636,3642>>, <<3654,3662>>, <<3761,3761>>, <<3764,3772>>,
    <<3782,3782>>, <<3784,3789>>, <<3864,3865>>, <<3893,3893>>,
    <<3895,3895>>, <<3897,3897>>, <<3953,3966>>, <<3968,3972>>,
    <<3974,3975>>, <<3981,3991>>, <<3993,4028>>, <<4038,4038>>,
    <<4141,4144>>, <<4146,4151>>, <<4153,4154>>, <<4157,4158>>,
    <<4184,4185>>, <<4190,4192>>, <<4209,4212>>, <<4226,4226>>,
    <<4229,4230>>, <<4237,4237>>, <<4253,4253>>, <<4348,4348>>,
    <<4957,4959>>, <<5906,5908>>, <<5938,5939>>, <<5970,5971>>,
    <<6002,6003>>, <<6068,6069>>, <<6071,6077>>, <<6086,6086>>,
    <<6089,6099>>, <<6103,6103>>, <<6109,6109>>, <<6155,6159>>,
    <<6211,6211>>, <<6277,6278>>, <<6313,6313>>, <<6432,6434>>,
    <<6439,6440>>, <<6450,6450>>, <<6457,6459>>, <<6679,6680>>,
    <<6683,6683>>, <<6742,6742>>, <<6744,6750>>, <<6752,6752>>,
    <<6754,6754>>, <<6757,6764>>, <<6771,6780>>, <<6783,6783>>,
    <<6823,6823>>, <<6832,6862>>, <<6912,6915>>, <<6964,6964>>,
    <<6966,6970>>, <<6972,6972>>, <<6978,6978>>, <<7019,7027>>,
    <<7040,7041>>, <<7074,7077>>, <<7080,7081>>, <<7083,7085>>,
    <<7142,7142>>, <<7144,7145>>, <<7149,7149>>, <<7151,7153>>,
    <<7212,7219>>, <<7222,7223>>, <<7288,7293>>, <<7376,7378>>,
    <<7380,7392>>, <<7394,7400>>, <<7405,7405>>, <<7412,7412>>,
    <<7416,7417>>, <<7468,7530>>, <<7544,7544>>, <<7579,7679>>,
    <<8125,8125>>, <<8127,8129>>, <<8141,8143>>, <<8157,8159>>,
    <<8173,8175>>, <<8189,8190>>, <<8203,8207>>, <<8216,8217>>,
    <<8228,8228>>, <<8231,8231>>, <<8234,8238>>, <<8288,8292>>,
    <<8294,8303>>, <<8305,8305>>, <<8319,8319>>, <<8336,8348>>,
    <<8400,8432>>, <<11388,11389>>, <<11503,11505>>, <<11631,11631>>,
    <<11647,11647>>, <<11744,11775>>, <<11823,11823>>, <<12293,12293>>,
    <<12330,12333>>, <<12337,12341>>, <<12347,12347>>, <<12441,12446>>,
    <<12540,12542>>, <<40981,40981>>, <<42232,42237>>, <<42508,42508>>,
    <<42607,42610>>, <<42612,42621>>, <<42623,42623>>, <<42652,42655>>,
    <<42736,42737>>, <<42752,42785>>, <<42864,42864>>, <<42888,42890>>,
    <<42994,42996>>, <<43000,43001>>, <<43010,43010>>, <<43014,43014>>,
    <<43019,43019>>, <<43045,43046>>, <<43052,43052>>, <<43204,43205>>,
    <<43232,43249>>, <<43263,43263>>, <<43302,43309>>, <<43335,43345>>,
    <<43392,43394>>, <<43443,43443>>, <<43446,43449>>, <<43452,43453>>,
    <<43471,43471>>, <<43493,43494>>, <<43561,43566>>, <<43569,43570>>,
    <<43573,43574>>, <<43587,43587>>, <<43596,43596>>, <<43632,43632>>,
    <<43644,43644>>, <<43696,43696>>, <<43698,43700>>, <<43703,43704>>,
    <<43710,43711>>, <<43713,43713>>, <<43741,43741>>, <<43756,43757>>,
    <<43763,43764>>, <<43766,43766>>, <<43867,43871>>, <<43881,43883>>,
    <<44005,44005>>, <<44008,44008>>, <<44013,44013>>, <<64286,64286>>,
    <<64434,64450>>, <<65024,65039>>, <<65043,65043>>, <<65056,65071>>,
    <<65106,65106>>, <<65109,65109>>, <<65279,65279>>, <<65287,65287>>,
    <<65294,65294>>, <<65306,65306>>, <<65342,65342>>, <<65344,65344>>,
    <<65392,65392>>, <<65438,65439>>, <<65507,65507>>, <<65529,65531>>,
    <<66045,66045>>, <<66272,66272>>, <<66422,66426>>, <<67456,67461>>,
    <<67463,67504>>, <<67506,67514>>, <<68097,68099>>, <<68101,68102>>,
    <<68108,68111>>, <<68152,68154>>, <<68159,68159>>, <<68325,68326>>,
    <<68900,68903>>, <<69291,69292>>, <<69446,69456>>, <<69506,69509>>,
    <<69633,69633>>, <<69688,69702>>, <<69744,69744>>, <<69747,69748>>,
    <<69759,69761>>, <<69811,69814>>, <<69817,69818>>, <<69821,69821>>,
    <<69826,69826>>, <<69837,69837>>, <<69888,69890>>, <<69927,69931>>,
    <<69933,69940>>, <<70003,70003>>, <<70016,70017>>, <<70070,70078>>,
    <<70089,70092>>, <<70095,70095>>, <<70191,70193>>, <<70196,70196>>,
    <<70198,70199>>, <<70206,70206>>, <<70367,70367>>, <<70371,70378>>,
    <<70400,70401>>, <<70459,70460>>, <<70464,70464>>, <<70502,70508>>,
    <<70512,70516>>, <<70712,70719>>, <<70722,70724>>, <<70726,70726>>,
    <<70750,70750>>, <<70835,70840>>, <<70842,70842>>, <<70847,70848>>,
    <<70850,70851>>, <<71090,71093>>, <<71100,71101>>, <<71103,71104>>,
    <<71132,71133>>, <<71219,71226>>, <<71229,71229>>, <<71231,71232>>,
    <<71339,71339>>, <<71341,71341>>, <<71344,71349>>, <<71351,71351>>,
    <<71453,71455>>, <<71458,71461>>, <<71463,71467>>, <<71727,71735>>,
    <<71737,71738>>, <<71995,71996>>, <<71998,71998>>, <<72003,72003>>,
    <<72148,72151>>, <<72154,72155>>, <<72160,72160>>, <<72193,72202>>,
    <<72243,72248>>, <<72251,72254>>, <<72263,72263>>, <<72273,72278>>,
    <<72281,72283>>, <<72330,72342>>, <<72344,72345>>, <<72752,72758>>,
    <<72760,72765>>, <<72767,72767>>, <<72850,72871>>, <<72874,72880>>,
    <<72882,72883>>, <<72885,72886>>, <<73009,73014>>, <<73018,73018>>,
    <<73020,73021>>, <<73023,73029>>, <<73031,73031>>, <<73104,73105>>,
    <<73109,73109>>, <<73111,73111>>, <<73459,73460>>, <<78896,78904>>,
    <<92912,92916>>, <<92976,92982>>, <<92992,92995>>, <<94031,94031>>,
    <<94095,94111>>, <<94176,94177>>, <<94179,94180>>, <<110576,110579>>,
    <<110581,110587>>, <<110589,110590>>, <<113821,113822>>,
    <<113824,113827>>, <<118528,118573>>, <<118576,118598>>,
    <<119143,119145>>, <<119155,119170>>, <<119173,119179>>,
    <<119210,119213>>, <<119362,119364>>, <<121344,121398>>,
    <<121403,121452>>, <<121461,121461>>, <<121476,121476>>,
    <<121499,121503>>, <<121505,121519>>, <<122880,122886>>,
    <<122888,122904>>, <<122907,122913>>, <<122915,122916>>,
    <<122918,122922>>, <<123184,123197>>, <<123566,123566>>,
    <<123628,123631>>, <<125136,125142>>, <<125252,125259>>,
    <<127995,127999>>, <<917505,917505>>, <<917536,917631>>,
    <<917760,917999>> }

\* \s, and the characters str.strip() removes
IsSpace(c) == c \in SpaceChars

\* \w
IsWordChar(c) ==
  IF c < 128 THEN c \in (48..57) \cup (65..90) \cup (97..122) \cup {95}
  ELSE InRanges(c, WordRanges)

\* str.strip()
Strip(s) ==
  LET idx == {i \in 1..Len(s) : ~IsSpace(s[i])}
  IN IF idx = {} THEN <<>> ELSE SubSeq(s, MinOf(idx), MaxOf(idx))

\* the sequences of seqs joined
RECURSIVE Flatten(_)
Flatten(seqs) == IF Len(seqs) = 0 THEN <<>> ELSE Head(seqs) \o Flatten(Tail(seqs))

\* the lowercase of a character that lowers to one character
LowerChar(c) ==
  IF c < 128 THEN (IF c \in 65..90 THEN c + 32 ELSE c)
  ELSE LET runs == {r \in LowerRuns : r[1] <= c /\ c <= r[2] /\ (c - r[1]) % r[3] = 0}
       IN IF runs = {} THEN c ELSE c + (CHOOSE r \in runs : TRUE)[4]

IsCased(c) == InRanges(c, CasedRanges)
IsCaseIgnorable(c) == InRanges(c, CaseIgnorableRanges)

\* a capital sigma lowers to the final sigma after a cased letter and not
\* before one, case-ignorable characters skipped
FinalSigma(s, i) ==
  LET before == {j \in 1..(i - 1) : ~IsCaseIgnorable(s[j])}
      after == {j \in (i + 1)..Len(s) : ~IsCaseIgnorable(s[j])}
  IN /\ before # {} /\ IsCased(s[MaxOf(before)])
     /\ (after = {} \/ ~IsCased(s[MinOf(after)]))

\* str.lower()
Lower(s) ==
  LET At(i) == CASE s[i] = 931 -> IF FinalSigma(s, i) THEN <<962>> ELSE <<963>>
                 [] s[i] = 304 -> <<105, 775>>
                 [] OTHER -> <<LowerChar(s[i])>>
  IN IF \A i \in 1..Len(s) : s[i] # 304 THEN [i \in 1..Len(s) |-> At(i)[1]]
     ELSE Flatten([i \in 1..Len(s) |-> At(i)])

\* re.sub(r'\s+', ' ', s)
CollapseWs(s) ==
  LET IsKept(i) == ~IsSpace(s[i]) \/ i = 1 \/ ~IsSpace(s[i - 1])
      idx == SelectSeq([i \in 1..Len(s) |-> i], IsKept)
  IN [j \in 1..Len(idx) |-> IF IsSpace(s[idx[j]]) THEN 32 ELSE s[idx[j]]]

\* re.sub(r'[^\w\s-]', '', s)
IsSectionChar(c) == IsWordChar(c) \/ IsSpace(c) \/ c = 45
RemoveNonSectionChars(s) == SelectSeq(s, IsSectionChar)

\* kw in s
Contains(s, kw) ==
  \E i \in 1..(Len(s) - Len(kw) + 1) : SubSeq(s, i, i + Len(kw) - 1) = kw

\* a < b for str
LexLess(a, b) ==
  \E i \in 1..(Len(a) + 1) :
    /\ i <= Len(b)
    /\ \A j \in 1..(i - 1) : a[j] = b[j]
    /\ (i = Len(a) + 1 \/ a[i] < b[i])

\* sorted(list(S)) for a set S of str
RECURSIVE Sorted(_)
Sorted(S) ==
  IF S = {} THEN <<>>
  ELSE LET m == CHOOSE x \in S : \A y \in S \ {x} : LexLess(x, y)
       IN <<m>> \o Sorted(S \ {m})

\* s[:n]
Take(s, n) == SubSeq(s, 1, IF Len(s) < n THEN Len(s) ELSE n)

----------------------------------------------------------------------------
(* The texts the program holds *)

\* "StructureDefinition"
S_StructureDefinition ==
  <<83, 116, 114, 117, 99, 116, 117, 114, 101, 68, 101, 102, 105, 110, 105, 116, 105, 111, 110>>
\* "ValueSet"
S_ValueSet ==
  <<86, 97, 108, 117, 101, 83, 101, 116>>
\* "CodeSystem"
S_CodeSystem ==
  <<67, 111, 100, 101, 83, 121, 115, 116, 101, 109>>
\* "ConceptMap"
S_ConceptMap ==
  <<67, 111, 110, 99, 101, 112, 116, 77, 97, 112>>
\* "ImplementationGuide"
S_ImplementationGuide ==
  <<73, 109, 112, 108, 101, 109, 101, 110, 116, 97, 116, 105, 111, 110, 71, 117, 105, 100, 101>>
\* "guide"
S_guide ==
  <<103, 117, 105, 100, 101>>
\* "resource"
S_resource ==
  <<114, 101, 115, 111, 117, 114, 99, 101>>
\* "profile"
S_profile ==
  <<112, 114, 111, 102, 105, 108, 101>>
\* "example"
S_example ==
  <<101, 120, 97, 109, 112, 108, 101>>
\* "download"
S_download ==
  <<100, 111, 119, 110, 108, 111, 97, 100>>
\* "unknown"
S_unknown ==
  <<117, 110, 107, 110, 111, 119, 110>>
\* "Unknown Title"
S_UnknownTitle ==
  <<85, 110, 107, 110, 111, 119, 110, 32, 84, 105, 116, 108, 101>>
\* "Unknown Version"
S_UnknownVersion ==
  <<85, 110, 107, 110, 111, 119, 110, 32, 86, 101, 114, 115, 105, 111, 110>>

----------------------------------------------------------------------------
(* Regular expressions.  A pattern is the sequence of the nodes of the     *)
(* expression; Match tries them from a position of the text the way the    *)
(* backtracking matcher of re does: a repetition takes as many characters  *)
(* as it can and gives them back one by one, the alternatives of a branch  *)
(* are tried from left to right, and the first way to match is the match.  *)

Lit(s) == [k |-> "lit", s |-> s]
OneOf(chars) == [k |-> "set", neg |-> FALSE, chars |-> chars, space |-> FALSE]
NoneOf(chars) == [k |-> "set", neg |-> TRUE, chars |-> chars, space |-> FALSE]
OneOfOrSpace(chars) == [k |-> "set", neg |-> FALSE, chars |-> chars, space |-> TRUE]
Space == OneOfOrSpace({})
Star(set) == [k |-> "rep", min |-> 0, set |-> set]
Plus(set) == [k |-> "rep", min |-> 1, set |-> set]
Alt(alts) == [k |-> "alt", alts |-> alts]
Opt(nodes) == Alt(<<nodes, <<>>>>)
Open(g) == [k |-> "open", g |-> g]
Close(g) == [k |-> "close", g |-> g]

\* re.IGNORECASE for a character of a pattern, all of them ASCII: a letter
\* matches its two cases, and 'i', 'k', 's' also match the dotted capital
\* and the dotless small i, the Kelvin sign, and the long s
FoldCase(c) ==
  CASE c \in 65..90 -> c + 32
    [] c \in {304, 305} -> 105
    [] c = 8490 -> 107
    [] c = 383 -> 115
    [] OTHER -> c

CharEq(c, p, ignorecase) == IF ignorecase THEN FoldCase(c) = FoldCase(p) ELSE c = p

LitAt(lit, s, i, ignorecase) ==
  /\ i + Len(lit) - 1 <= Len(s)
  /\ \A j \in 1..Len(lit) : CharEq(s[i + j - 1], lit[j], ignorecase)

InSet(set, c) ==
  LET hit == c \in set.chars \/ (set.space /\ IsSpace(c))
  IN IF set.neg THEN ~hit ELSE hit

\* the number of characters of set in a row from position i
RunLength(set, s, i) ==
  LET stops == {j \in i..Len(s) : ~InSet(set, s[j])}
  IN IF stops = {} THEN Len(s) + 1 - i ELSE MinOf(stops) - i

NoMatch == [ok |-> FALSE]
NoGroups == << <<0, 0>>, <<0, 0>> >>

\* Match: the match of nodes from position i as [ok, end, groups], where
\* end is the position after the match and groups[g] = <<first, end>> of
\* group g, <<0, 0>> for a group that took no part
RECURSIVE Match(_, _, _, _, _)
RECURSIVE MatchRep(_, _, _, _, _, _, _)
RECURSIVE MatchAlt(_, _, _, _, _, _, _)
Match(nodes, s, i, groups, ignorecase) ==
  IF Len(nodes) = 0 THEN [ok |-> TRUE, end |-> i, groups |-> groups]
  ELSE LET n == Head(nodes)
           rest == Tail(nodes)
       IN CASE n.k = "lit" ->
                 IF LitAt(n.s, s, i, ignorecase)
                 THEN Match(rest, s, i + Len(n.s), groups, ignorecase)
                 ELSE NoMatch
            [] n.k = "set" ->
                 IF i <= Len(s) /\ InSet(n, s[i])
                 THEN Match(rest, s, i + 1, groups, ignorecase)
                 ELSE NoMatch
            [] n.k = "rep" ->
                 MatchRep(rest, s, i, RunLength(n.set, s, i), n.min, groups, ignorecase)
            [] n.k = "alt" ->
                 MatchAlt(n.alts, 1, rest, s, i, groups, ignorecase)
            [] n.k = "open" ->
                 Match(rest, s, i, [groups EXCEPT ![n.g] = <<i, 0>>], ignorecase)
            [] n.k = "close" ->
                 Match(rest, s, i, [groups EXCEPT ![n.g] = <<groups[n.g][1], i>>],
                       ignorecase)

\* the rest of the pattern after a repetition that can take up to count
\* characters: after the most characters, no fewer than min, that let the
\* rest match
MatchRep(rest, s, i, count, min, groups, ignorecase) ==
  LET taken == {n \in min..count : Match(rest, s, i + n, groups, ignorecase).ok}
  IN IF taken = {} THEN NoMatch
     ELSE Match(rest, s, i + MaxOf(taken), groups, ignorecase)

\* alternative a, then a + 1, ..., each followed by the rest of the pattern
MatchAlt(alts, a, rest, s, i, groups, ignorecase) ==
  IF a > Len(alts) THEN NoMatch
  ELSE LET m == Match(alts[a] \o rest, s, i, groups, ignorecase)
       IN IF m.ok THEN m
          ELSE MatchAlt(alts, a + 1, rest, s, i, groups, ignorecase)

\* the positions of s where pattern matches
MatchStarts(pattern, s, ignorecase) ==
  {i \in 1..(Len(s) + 1) : Match(pattern, s, i, NoGroups, ignorecase).ok}

\* re.search(pattern, s): the leftmost match
Search(pattern, s, ignorecase) ==
  LET starts == MatchStarts(pattern, s, ignorecase)
  IN IF starts = {} THEN NoMatch
     ELSE Match(pattern, s, MinOf(starts), NoGroups, ignorecase)

\* the matches, from left to right, that do not overlap (the patterns of
\* the program match no empty text)
RECURSIVE MatchesFrom(_, _, _, _, _)
MatchesFrom(pattern, s, starts, from, ignorecase) ==
  LET later == {i \in starts : i >= from}
  IN IF later = {} THEN <<>>
     ELSE LET m == Match(pattern, s, MinOf(later), NoGroups, ignorecase)
          IN <<m>> \o MatchesFrom(pattern, s, starts, m.end, ignorecase)

Matches(pattern, s, ignorecase) ==
  MatchesFrom(pattern, s, MatchStarts(pattern, s, ignorecase), 1, ignorecase)

\* match.group(g); a group that took no part gives '' in re.findall
Group(m, s, g) ==
  IF m.groups[g][2] = 0 THEN <<>> ELSE SubSeq(s, m.groups[g][1], m.groups[g][2] - 1)

\* re.findall for a pattern with one group: the texts of group 1
FindAll1(pattern, s, ignorecase) ==
  LET ms == Matches(pattern, s, ignorecase)
  IN [j \in 1..Len(ms) |-> Group(ms[j], s, 1)]

\* re.findall for a pattern with two groups: the tuples of the two texts
FindAll2(pattern, s, ignorecase) ==
  LET ms == Matches(pattern, s, ignorecase)
  IN [j \in 1..Len(ms) |-> <<Group(ms[j], s, 1), Group(ms[j], s, 2)>>]

----------------------------------------------------------------------------
(* parse_implementation_guide_html *)

\* r'<title[^>]*>([^<]+)</title>'
TitlePattern ==
  << Lit(<<60, 116, 105, 116, 108, 101>>),   \* <title
     Star(NoneOf({62})),
     Lit(<<62>>),   \* >
     Open(1),
     Plus(NoneOf({60})),
     Close(1),
     Lit(<<60, 47, 116, 105, 116, 108, 101, 62>>) >>   \* </title>

\* r'<meta[^>]*name=["\']description["\'][^>]*content=["\']([^"\']+)["\']'
DescriptionPattern ==
  << Lit(<<60, 109, 101, 116, 97>>),   \* <meta
     Star(NoneOf({62})),
     Lit(<<110, 97, 109, 101, 61>>),   \* name=
     OneOf({34, 39}),
     Lit(<<100, 101, 115, 99, 114, 105, 112, 116, 105, 111, 110>>),   \* description
     OneOf({34, 39}),
     Star(NoneOf({62})),
     Lit(<<99, 111, 110, 116, 101, 110, 116, 61>>),   \* content=
     OneOf({34, 39}),
     Open(1),
     Plus(NoneOf({34, 39})),
     Close(1),
     OneOf({34, 39}) >>

\* version_patterns[0]
\* r'Version[:\s]+([0-9]+\.[0-9]+(?:\.[0-9]+)?)'
VersionLabelled ==
  << Lit(<<86, 101, 114, 115, 105, 111, 110>>),   \* Version
     Plus(OneOfOrSpace({58})),
     Open(1),
     Plus(OneOf((48..57))),
     Lit(<<46>>),   \* .
     Plus(OneOf((48..57))),
     Opt(<<Lit(<<46>>), Plus(OneOf((48..57)))>>),
     Close(1) >>

\* version_patterns[1]
\* r'version["\']?\s*[:=]\s*["\']?([0-9]+\.[0-9]+(?:\.[0-9]+)?)'
VersionKeyValue ==
  << Lit(<<118, 101, 114, 115, 105, 111, 110>>),   \* version
     Opt(<<OneOf({34, 39})>>),
     Star(Space),
     OneOf({58, 61}),
     Star(Space),
     Opt(<<OneOf({34, 39})>>),
     Open(1),
     Plus(OneOf((48..57))),
     Lit(<<46>>),   \* .
     Plus(OneOf((48..57))),
     Opt(<<Lit(<<46>>), Plus(OneOf((48..57)))>>),
     Close(1) >>

\* version_patterns[2]
\* r'v([0-9]+\.[0-9]+(?:\.[0-9]+)?)'
VersionBare ==
  << Lit(<<118>>),   \* v
     Open(1),
     Plus(OneOf((48..57))),
     Lit(<<46>>),   \* .
     Plus(OneOf((48..57))),
     Opt(<<Lit(<<46>>), Plus(OneOf((48..57)))>>),
     Close(1) >>

version_patterns == <<VersionLabelled, VersionKeyValue, VersionBare>>

NumVersionPatterns == 3

\* section_patterns[0]
\* r'<h[1-6][^>]*>([^<]+)</h[1-6]>'
HeadingPattern ==
  << Lit(<<60, 104>>),   \* <h
     OneOf((49..54)),
     Star(NoneOf({62})),
     Lit(<<62>>),   \* >
     Open(1),
     Plus(NoneOf({60})),
     Close(1),
     Lit(<<60, 47, 104>>),   \* </h
     OneOf((49..54)),
     Lit(<<62>>) >>   \* >

\* section_patterns[1]
\* r'<div[^>]*class[^>]*header[^>]*>([^<]+)</div>'
HeaderDivPattern ==
  << Lit(<<60, 100, 105, 118>>),   \* <div
     Star(NoneOf({62})),
     Lit(<<99, 108, 97, 115, 115>>),   \* class
     Star(NoneOf({62})),
     Lit(<<104, 101, 97, 100, 101, 114>>),   \* header
     Star(NoneOf({62})),
     Lit(<<62>>),   \* >
     Open(1),
     Plus(NoneOf({60})),
     Close(1),
     Lit(<<60, 47, 100, 105, 118, 62>>) >>   \* </div>

section_patterns == <<HeadingPattern, HeaderDivPattern>>

\* fhir_patterns[0]
\* r'(StructureDefinition|ValueSet|CodeSystem|ConceptMap|ImplementationGuide)/([a-zA-Z0-9._-]+)'
ResourcePathPattern ==
  << Open(1),
     Alt(<<<<Lit(S_StructureDefinition)>>, <<Lit(S_ValueSet)>>,
           <<Lit(S_CodeSystem)>>, <<Lit(S_ConceptMap)>>,
           <<Lit(S_ImplementationGuide)>>>>),
     Close(1),
     Lit(<<47>>),   \* /
     Open(2),
     Plus(OneOf((97..122) \cup (65..90) \cup (48..57) \cup {46, 95, 45})),
     Close(2) >>

\* fhir_patterns[1]
\* r'FHIR\s+([A-Z][a-zA-Z]+)\s*:?\s*([a-zA-Z0-9._-]+)?'
FhirTextPattern ==
  << Lit(<<70, 72, 73, 82>>),   \* FHIR
     Plus(Space),
     Open(1),
     OneOf((65..90)),
     Plus(OneOf((97..122) \cup (65..90))),
     Close(1),
     Star(Space),
     Opt(<<Lit(<<58>>)>>),   \* :?
     Star(Space),
     Opt(<<Open(2),
           Plus(OneOf((97..122) \cup (65..90) \cup (48..57) \cup {46, 95, 45})), Close(2)>>) >>

fhir_patterns == <<ResourcePathPattern, FhirTextPattern>>

\* r'<a[^>]*href=["\']([^"\']+)["\'][^>]*>([^<]+)</a>'
link_pattern ==
  << Lit(<<60, 97>>),   \* <a
     Star(NoneOf({62})),
     Lit(<<104, 114, 101, 102, 61>>),   \* href=
     OneOf({34, 39}),
     Open(1),
     Plus(NoneOf({34, 39})),
     Close(1),
     OneOf({34, 39}),
     Star(NoneOf({62})),
     Lit(<<62>>),   \* >
     Open(2),
     Plus(NoneOf({60})),
     Close(2),
     Lit(<<60, 47, 97, 62>>) >>   \* </a>

\* re.search(r'<title[^>]*>([^<]+)</title>', html_content, re.IGNORECASE), and
\* title_match.group(1).strip()
ExtractTitle(html) ==
  LET title_match == Search(TitlePattern, html, TRUE)
  IN IF title_match.ok THEN Strip(Group(title_match, html, 1))
     ELSE S_UnknownTitle

\* re.search of the meta description, and desc_match.group(1).strip()
ExtractDescription(html) ==
  LET desc_match == Search(DescriptionPattern, html, TRUE)
  IN IF desc_match.ok THEN Strip(Group(desc_match, html, 1)) ELSE <<>>

\* re.search(version_patterns[n - 1], html_content, re.IGNORECASE): whether
\* the pattern matches and group 1 of its leftmost match
SearchVersion(n, html) ==
  LET version_match == Search(version_patterns[n], html, TRUE)
  IN IF version_match.ok
     THEN [found |-> TRUE, value |-> Group(version_match, html, 1)]
     ELSE [found |-> FALSE, value |-> <<>>]

\* for pattern in version_patterns: ... if version_match: ...; break
RECURSIVE ExtractVersionFrom(_, _)
ExtractVersionFrom(n, html) ==
  IF n > NumVersionPatterns THEN S_UnknownVersion
  ELSE LET m == SearchVersion(n, html)
       IN IF m.found THEN m.value ELSE ExtractVersionFrom(n + 1, html)

\* mutant of ExtractVersion: the match that starts first in the page wins,
\* whichever pattern it is a match of
ExtractVersionLeftmost(html) ==
  LET starts == [n \in 1..NumVersionPatterns |->
                   MatchStarts(version_patterns[n], html, TRUE)]
      some == {n \in 1..NumVersionPatterns : starts[n] # {}}
      first == MinOf({MinOf(starts[n]) : n \in some})
      n == MinOf({k \in some : MinOf(starts[k]) = first})
  IN IF some = {} THEN S_UnknownVersion
     ELSE Group(Match(version_patterns[n], html, first, NoGroups, TRUE),
                html, 1)

ExtractVersion(html) == ExtractVersionFrom(1, html)

MinSectionLen == 3
MaxSectionLen == 100
MaxSections == 10
MaxResources == 15
MinLinkLen == 3
MaxLinkLen == 50
MaxLinks == 10

\* re.findall(pattern, html_content, re.IGNORECASE) for the section
\* patterns in turn
SectionMatches(html) ==
  FindAll1(section_patterns[1], html, TRUE)
    \o FindAll1(section_patterns[2], html, TRUE)

\* clean_section = re.sub(r'[^\w\s-]', '', match.strip())
CleanSection(match) == RemoveNonSectionChars(Strip(match))

\* if len(clean_section) > 3 and len(clean_section) < 100
SectionKept(clean_section) ==
  Len(clean_section) > MinSectionLen /\ Len(clean_section) < MaxSectionLen

\* mutant of SectionsList: the list is cut to 10 in match order, then sorted
SectionsListCutFirst(matches) ==
  LET kept == SelectSeq([i \in 1..Len(matches) |-> CleanSection(matches[i])], SectionKept)
      cut == Take(kept, MaxSections)
  IN Sorted({cut[i] : i \in 1..Len(cut)})

\* sections = set(); ...add(clean_section); sorted(list(sections))[:10]
SectionsList(matches) ==
  LET sections == {c \in {CleanSection(matches[i]) : i \in 1..Len(matches)} : SectionKept(c)}
  IN Take(Sorted(sections), MaxSections)

\* re.findall(pattern, html_content) for the fhir patterns in turn, which
\* have two groups each: (resource_type, resource_id) tuples
ResourceMatches(html) ==
  FindAll2(fhir_patterns[1], html, FALSE)
    \o FindAll2(fhir_patterns[2], html, FALSE)

\* f"{resource_type}: {resource_id}"
ResourceString(match) == match[1] \o <<58, 32>> \o match[2]

\* resources = set(); if resource_id: ...add(...); sorted(list(resources))[:15]
ResourcesList(matches) ==
  LET resources == {ResourceString(matches[i]) :
                      i \in {j \in 1..Len(matches) : Len(matches[j][2]) > 0}}
  IN Take(Sorted(resources), MaxResources)

LinkKeywords == <<S_guide, S_resource, S_profile, S_example, S_download>>

\* re.findall(link_pattern, ...), filtered by length and keyword, [:10]
UsefulLinks(html) ==
  LET links == FindAll2(link_pattern, html, TRUE)
      clean == [i \in 1..Len(links) |->
                  [url |-> links[i][1], text |-> CollapseWs(Strip(links[i][2]))]]
      Useful(l) == /\ Len(l.text) > MinLinkLen /\ Len(l.text) < MaxLinkLen
                   /\ \E k \in 1..Len(LinkKeywords) :
                        Contains(Lower(l.text), LinkKeywords[k])
  IN Take(SelectSeq(clean, Useful), MaxLinks)

parse_implementation_guide_html(html, source_url) ==
  [source_url  |-> source_url,
   title       |-> ExtractTitle(html),
   version     |-> ExtractVersion(html),
   description |-> ExtractDescription(html),
   sections    |-> SectionsList(SectionMatches(html)),
   resources   |-> ResourcesList(ResourceMatches(html)),
   links       |-> UsefulLinks(html)]

----------------------------------------------------------------------------
(* parse_downloads_html *)

\* download_patterns[0]
\* r'<a[^>]*href=["\']([^"\']*\.(?:zip|tgz|tar\.gz|json|xml|xlsx))["\'][^>]*>([^<]+)</a>'
DownloadByExtension ==
  << Lit(<<60, 97>>),   \* <a
     Star(NoneOf({62})),
     Lit(<<104, 114, 101, 102, 61>>),   \* href=
     OneOf({34, 39}),
     Open(1),
     Star(NoneOf({34, 39})),
     Lit(<<46>>),   \* .
     Alt(<<<<Lit(<<122, 105, 112>>)>>, <<Lit(<<116, 103, 122>>)>>,
           <<Lit(<<116, 97, 114, 46, 103, 122>>)>>,
           <<Lit(<<106, 115, 111, 110>>)>>, <<Lit(<<120, 109, 108>>)>>,
           <<Lit(<<120, 108, 115, 120>>)>>>>),   \* zip | tgz | tar.gz | json | xml | xlsx
     Close(1),
     OneOf({34, 39}),
     Star(NoneOf({62})),
     Lit(<<62>>),   \* >
     Open(2),
     Plus(NoneOf({60})),
     Close(2),
     Lit(<<60, 47, 97, 62>>) >>   \* </a>

\* download_patterns[1]
\* r'<a[^>]*href=["\']([^"\']*(?:package|full|validation|definitions)[^"\']*)["\'][^>]*>([^<]+)</a>'
DownloadByPath ==
  << Lit(<<60, 97>>),   \* <a
     Star(NoneOf({62})),
     Lit(<<104, 114, 101, 102, 61>>),   \* href=
     OneOf({34, 39}),
     Open(1),
     Star(NoneOf({34, 39})),
     Alt(<<<<Lit(<<112, 97, 99, 107, 97, 103, 101>>)>>,
           <<Lit(<<102, 117, 108, 108>>)>>,
           <<Lit(<<118, 97, 108, 105, 100, 97, 116, 105, 111, 110>>)>>,
           <<Lit(<<100, 101, 102, 105, 110, 105, 116, 105, 111, 110, 115>>)>>>>),   \* package | full | validation | definitions
     Star(NoneOf({34, 39})),
     Close(1),
     OneOf({34, 39}),
     Star(NoneOf({62})),
     Lit(<<62>>),   \* >
     Open(2),
     Plus(NoneOf({60})),
     Close(2),
     Lit(<<60, 47, 97, 62>>) >>   \* </a>

\* download_patterns[2]
\* r'href=["\']([^"\']*(?:downloads?|files?|exports?)[^"\']*)["\']'
DownloadByHref ==
  << Lit(<<104, 114, 101, 102, 61>>),   \* href=
     OneOf({34, 39}),
     Open(1),
     Star(NoneOf({34, 39})),
     Alt(<<<<Lit(<<100, 111, 119, 110, 108, 111, 97, 100>>), Opt(<<Lit(<<115>>)>>)>>,
           <<Lit(<<102, 105, 108, 101>>), Opt(<<Lit(<<115>>)>>)>>,
           <<Lit(<<101, 120, 112, 111, 114, 116>>), Opt(<<Lit(<<115>>)>>)>>>>),   \* downloads? | files? | exports?
     Star(NoneOf({34, 39})),
     Close(1),
     OneOf({34, 39}) >>

download_patterns == <<DownloadByExtension, DownloadByPath, DownloadByHref>>

\* package_patterns[0]
\* r'(FHIR\s+(?:package|bundle|specification))'
FhirPackage ==
  << Open(1),
     Lit(<<70, 72, 73, 82>>),   \* FHIR
     Plus(Space),
     Alt(<<<<Lit(<<112, 97, 99, 107, 97, 103, 101>>)>>,
           <<Lit(<<98, 117, 110, 100, 108, 101>>)>>,
           <<Lit(<<115, 112, 101, 99, 105, 102, 105, 99, 97, 116, 105, 111, 110>>)>>>>),   \* package | bundle | specification
     Close(1) >>

\* package_patterns[1]
\* r'(Implementation\s+Guide\s+(?:package|bundle))'
ImplementationGuidePackage ==
  << Open(1),
     Lit(<<73, 109, 112, 108, 101, 109, 101, 110, 116, 97, 116, 105, 111, 110>>),   \* Implementation
     Plus(Space),
     Lit(<<71, 117, 105, 100, 101>>),   \* Guide
     Plus(Space),
     Alt(<<<<Lit(<<112, 97, 99, 107, 97, 103, 101>>)>>,
           <<Lit(<<98, 117, 110, 100, 108, 101>>)>>>>),   \* package | bundle
     Close(1) >>

\* package_patterns[2]
\* r'(NPM\s+package)'
NpmPackage ==
  << Open(1),
     Lit(<<78, 80, 77>>),   \* NPM
     Plus(Space),
     Lit(<<112, 97, 99, 107, 97, 103, 101>>),   \* package
     Close(1) >>

\* package_patterns[3]
\* r'(Validation\s+pack)'
ValidationPack ==
  << Open(1),
     Lit(<<86, 97, 108, 105, 100, 97, 116, 105, 111, 110>>),   \* Validation
     Plus(Space),
     Lit(<<112, 97, 99, 107>>),   \* pack
     Close(1) >>

\* package_patterns[4]
\* r'(Full\s+specification)'
FullSpecification ==
  << Open(1),
     Lit(<<70, 117, 108, 108>>),   \* Full
     Plus(Space),
     Lit(<<115, 112, 101, 99, 105, 102, 105, 99, 97, 116, 105, 111, 110>>),   \* specification
     Close(1) >>

package_patterns ==
  <<FhirPackage, ImplementationGuidePackage, NpmPackage, ValidationPack,
    FullSpecification>>

MinDescriptionLen == 3

\* re.findall over download_patterns (re.IGNORECASE), pattern by pattern: a
\* pattern with two groups gives (url, description) tuples, the third
\* pattern, with one group, gives plain strings
DownloadMatches(html) ==
  LET Tuples(m) == [i \in 1..Len(m) |->
                      [tuple |-> TRUE, url |-> m[i][1], description |-> m[i][2]]]
      Strings(m) == [i \in 1..Len(m) |->
                       [tuple |-> FALSE, url |-> m[i], description |-> <<>>]]
  IN Tuples(FindAll2(download_patterns[1], html, TRUE))
       \o Tuples(FindAll2(download_patterns[2], html, TRUE))
       \o Strings(FindAll1(download_patterns[3], html, TRUE))

\* url.split('.')[-1].lower() if '.' in url else 'unknown'
FileFormat(url) ==
  LET dots == {i \in 1..Len(url) : url[i] = 46}
  IN IF dots = {} THEN S_unknown ELSE Lower(SubSeq(url, MaxOf(dots) + 1, Len(url)))

\* if isinstance(match, tuple) and len(match) >= 2: ... if len(clean_desc) > 3
FileKept(match) ==
  match.tuple /\ Len(CollapseWs(Strip(match.description))) > MinDescriptionLen

FileEntry(match) ==
  [url |-> match.url,
   description |-> CollapseWs(Strip(match.description)),
   format |-> FileFormat(match.url)]

\* re.findall(pattern, html_content, re.IGNORECASE) for the package patterns
\* in turn, the matches that are not empty
PackageMatches(html) ==
  LET NotEmpty(match) == Len(match) > 0
  IN Flatten([n \in 1..Len(package_patterns) |->
                SelectSeq(FindAll1(package_patterns[n], html, TRUE), NotEmpty)])

\* the list of 'formats' is list(set(...)): its order is not modelled
parse_downloads_html(html, source_url) ==
  LET kept == SelectSeq(DownloadMatches(html), FileKept)
      files == [i \in 1..Len(kept) |-> FileEntry(kept[i])]
  IN [source_url |-> source_url,
      files      |-> files,
      formats    |-> {files[i].format : i \in 1..Len(files)},
      packages   |-> PackageMatches(html)]

----------------------------------------------------------------------------
(* Inputs of parse_implementation_guide_html: pages written from pieces of *)
(* markup and text, the text of a page being its pieces joined.            *)

MaxPhrases == 3
NumHeadings == 11
NumRefs == 16

TitleEl(txt) == <<60, 116, 105, 116, 108, 101, 62>> \o txt \o <<60, 47, 116, 105, 116, 108, 101, 62>>
H1El(txt) == <<60, 104, 49, 62>> \o txt \o <<60, 47, 104, 49, 62>>
\* <h2>txt</h2>
HEl(txt) == <<60, 104, 50, 62>> \o txt \o <<60, 47, 104, 50, 62>>
\* <div class="header">txt</div>
DivEl(txt) ==
  <<60, 100, 105, 118, 32, 99, 108, 97, 115, 115, 61, 34, 104, 101, 97, 100, 101, 114, 34, 62>>
    \o txt \o <<60, 47, 100, 105, 118, 62>>
\* <li>ty/id</li>
RefEl(ty, id) == <<60, 108, 105, 62>> \o ty \o <<47>> \o id \o <<60, 47, 108, 105, 62>>
\* <li>FHIR ty: id</li>
FhirEl(ty, id) ==
  <<60, 108, 105, 62, 70, 72, 73, 82, 32>> \o ty \o <<58, 32>> \o id \o <<60, 47, 108, 105, 62>>
\* <a href="href">txt</a>
AEl(href, txt) ==
  <<60, 97, 32, 104, 114, 101, 102, 61, 34>> \o href \o <<34, 62>> \o txt \o <<60, 47, 97, 62>>

\* the texts a version is written with, and pieces of them: "Version: 1.0",
\* "version='4.5'", "v6.7", "Version", "Version" with a long s, " ", "="
\* and "8.9.10"
Phrases ==
  { <<86, 101, 114, 115, 105, 111, 110, 58, 32, 49, 46, 48>>,
    <<118, 101, 114, 115, 105, 111, 110, 61, 39, 52, 46, 53, 39>>,
    <<118, 54, 46, 55>>,
    <<86, 101, 114, 115, 105, 111, 110>>,
    <<86, 101, 114, 383, 105, 111, 110>>,
    <<32>>,
    <<61>>,
    <<56, 46, 57, 46, 49, 48>> }

VersionPages == SeqsUpTo(Phrases, MaxPhrases)

\* "HdrA", "HdrB", ...
Heading(i) == <<72, 100, 114, 64 + i>>
Repeat(c, n) == [i \in 1..n |-> c]

SpecialHeadings ==
  { \* "Abc": too short
    HEl(<<65, 98, 99>>),
    \* " HdrA ": "HdrA" once stripped
    HEl(<<32, 72, 100, 114, 65, 32>>),
    \* "HdrA" between a no-break space and an em space
    HEl(<<160, 72, 100, 114, 65, 8195>>),
    \* "Hdr!B": "HdrB" once cleaned
    HEl(<<72, 100, 114, 33, 66>>),
    \* "A!b?": "Ab" once cleaned, too short
    HEl(<<65, 33, 98, 63>>),
    \* four word characters that are not ASCII: two accented letters, a
    \* Cyrillic letter and an Arabic-Indic digit
    HEl(<<201, 233, 1078, 1635>>),
    \* 100 times "x": too long
    HEl(Repeat(120, 100)),
    \* 99 times "x"
    HEl(Repeat(120, 99)),
    \* "ValueSet/abc"
    HEl(<<86, 97, 108, 117, 101, 83, 101, 116, 47, 97, 98, 99>>),
    \* <h1>-A b-</h1>
    H1El(<<45, 65, 32, 98, 45>>),
    \* "HdrZ</h2>": a heading without its start tag
    <<72, 100, 114, 90, 60, 47, 104, 50, 62>> }

\* n headings, as <h2> elements or, when divs, with every second one a
\* header <div>
Headings(n, divs) ==
  [i \in 1..n |-> IF divs /\ i % 2 = 0 THEN DivEl(Heading(i)) ELSE HEl(Heading(i))]

\* up to NumHeadings headings; and one heading or none, followed by one or
\* two of the special ones
SectionPages ==
  { Headings(n, divs) : n \in 0..NumHeadings, divs \in BOOLEAN }
    \cup { Headings(n, FALSE) \o Sorted(S) :
             n \in 0..1, S \in {T \in SUBSET SpecialHeadings : Cardinality(T) \in 1..2} }

RefTypes == <<S_ValueSet, S_CodeSystem, S_StructureDefinition, S_ConceptMap,
              S_ImplementationGuide>>

\* "r01", "r02", ...
RefId(i) == <<114, 48 + (i \div 10), 48 + (i % 10)>>
Ref(i) == RefEl(RefTypes[(i % 5) + 1], RefId(i))

SpecialRefs ==
  { \* <li>FHIR Patient: p1</li>
    FhirEl(<<80, 97, 116, 105, 101, 110, 116>>, <<112, 49>>),
    \* <li>FHIR Patient</li>: no id
    <<60, 108, 105, 62, 70, 72, 73, 82, 32, 80, 97, 116, 105, 101, 110, 116, 60, 47, 108, 105, 62>>,
    \* <li>FHIR patient: p1</li>
    FhirEl(<<112, 97, 116, 105, 101, 110, 116>>, <<112, 49>>),
    \* <li>FHIR Patient2: p1</li>
    FhirEl(<<80, 97, 116, 105, 101, 110, 116, 50>>, <<112, 49>>),
    \* <li>Questionnaire/q1</li>
    RefEl(<<81, 117, 101, 115, 116, 105, 111, 110, 110, 97, 105, 114, 101>>, <<113, 49>>),
    \* <li>FHIR CodeSystem: r01</li>, the resource of Ref(1)
    FhirEl(S_CodeSystem, RefId(1)),
    \* <li>ValueSet/a b</li>: an id cut at the blank
    <<60, 108, 105, 62, 86, 97, 108, 117, 101, 83, 101, 116, 47, 97, 32, 98, 60, 47, 108, 105, 62>>,
    \* "FHIR Patient ", text with no markup around it
    <<70, 72, 73, 82, 32, 80, 97, 116, 105, 101, 110, 116, 32>>,
    \* "ValueSet/a ", text with no markup around it
    <<86, 97, 108, 117, 101, 83, 101, 116, 47, 97, 32>> }

\* up to NumRefs references; and one reference or none, followed by one or
\* two of the special ones
ResourcePages ==
  { [i \in 1..n |-> Ref(i)] : n \in 0..NumRefs }
    \cup { [i \in 1..n |-> Ref(i)] \o Sorted(S) :
             n \in 0..1, S \in {T \in SUBSET SpecialRefs : Cardinality(T) \in 1..2} }

\* <title>My Guide v2.3</title><h1>Intro</h1>, the links "Click here" and
\* "User Guide" (written with two no-break spaces), and a reference
GuideParts ==
  << TitleEl(<<77, 121, 32, 71, 117, 105, 100, 101, 32, 118, 50, 46, 51>>),
     H1El(<<73, 110, 116, 114, 111>>),
     AEl(<<47, 120>>, <<67, 108, 105, 99, 107, 32, 104, 101, 114, 101>>),
     AEl(<<47, 103>>, <<85, 115, 101, 114, 160, 160, 71, 117, 105, 100, 101>>),
     Ref(1) >>

GuidePage == Flatten(GuideParts)

HtmlPages == VersionPages \cup SectionPages \cup ResourcePages \cup {GuideParts}

HtmlSourceUrl == "http://build.fhir.org/ig/WorldHealthOrganization/smart-anc/"

Reverse(seq) == [i \in 1..Len(seq) |-> seq[Len(seq) + 1 - i]]

HtmlInit ==
  /\ html_pc = "call"
  /\ html_parts \in HtmlPages
  /\ html_page = Flatten(html_parts)
  /\ html_info = None
  /\ html_prev = None
  /\ html_prev_page = <<>>
  /\ html_runs = 0
  /\ DakIdle
  /\ DrvIdle
  /\ DlIdle

\* parse_implementation_guide_html(html_content, source_url)
ParseImplementationGuideHtml ==
  /\ html_pc = "call"
  /\ html_info' = parse_implementation_guide_html(html_page, HtmlSourceUrl)
  /\ html_pc' = "returned"
  /\ html_runs' = html_runs + 1
  /\ UNCHANGED <<html_page, html_parts, html_prev, html_prev_page, dakVars, drvVars, dlVars>>

\* the caller parses the same page once more
RerunSamePage ==
  /\ html_pc = "returned"
  /\ html_runs = 1
  /\ html_prev' = html_info
  /\ html_prev_page' = html_page
  /\ html_pc' = "call"
  /\ UNCHANGED <<html_page, html_parts, html_info, html_runs, dakVars, drvVars, dlVars>>

\* the caller then parses the page written from the same pieces in the
\* opposite order
ReorderPage ==
  /\ html_pc = "returned"
  /\ html_runs = 1
  /\ Reverse(html_parts) # html_parts
  /\ html_parts' = Reverse(html_parts)
  /\ html_page' = Flatten(Reverse(html_parts))
  /\ html_prev' = html_info
  /\ html_prev_page' = html_page
  /\ html_pc' = "call"
  /\ UNCHANGED <<html_info, html_runs, dakVars, drvVars, dlVars>>

HtmlNext == ParseImplementationGuideHtml \/ RerunSamePage \/ ReorderPage

SpecHtml == HtmlInit /\ [][HtmlNext]_vars

----------------------------------------------------------------------------
(* C9: the version is group 1 of the leftmost match of the first of the    *)
(* three ordered patterns (labelled, key/value, bare) that matches         *)
(* anywhere in the page, wherever the matches of the lower-priority        *)
(* patterns sit; it stays 'Unknown Version' when none matches.             *)

VersionMatchesAt(n, page) == MatchStarts(version_patterns[n], page, TRUE)
VersionGroupOf(n, page) ==
  Group(Match(version_patterns[n], page, MinOf(VersionMatchesAt(n, page)), NoGroups, TRUE),
        page, 1)

C9_VersionByPatternPriority ==
  html_pc = "returned" =>
    LET p == html_page
        some(n) == VersionMatchesAt(n, p) # {}
    IN /\ some(1) => html_info.version = VersionGroupOf(1, p)
       /\ (~some(1) /\ some(2)) => html_info.version = VersionGroupOf(2, p)
       /\ (~some(1) /\ ~some(2) /\ some(3)) => html_info.version = VersionGroupOf(3, p)
       /\ (~some(1) /\ ~some(2) /\ ~some(3)) => html_info.version = S_UnknownVersion

\* "v6.7version='4.5'Version: 1.0": the bare match comes first in the page,
\* then the key/value one, and the labelled one gives the version
C9_Witness ==
  /\ html_pc = "returned"
  /\ html_parts = <<<<118, 54, 46, 55>>, <<118, 101, 114, 115, 105, 111, 110, 61, 39, 52, 46, 53, 39>>,
                     <<86, 101, 114, 115, 105, 111, 110, 58, 32, 49, 46, 48>>>>
  /\ html_info.version = <<49, 46, 48>>

(* C10: the sections list has no duplicates, is sorted, has at most 10     *)
(* entries, each of cleaned length strictly between 3 and 100; the         *)
(* resources list has no duplicates, is sorted and has at most 15 entries; *)
(* each list is the smallest members of the set of its matched candidates, *)
(* so parsing the same page again, or a page in which the same headings    *)
(* and references are matched in another order, gives the same two lists.  *)

StrictlySorted(l) == \A i \in 1..(Len(l) - 1) : LexLess(l[i], l[i + 1])
Elems(l) == {l[i] : i \in 1..Len(l)}

\* l lists, in order, the smallest members of S, all of them or the first cap
SmallestOf(l, S, cap) ==
  /\ StrictlySorted(l)
  /\ Cardinality(Elems(l)) = Len(l)
  /\ Len(l) <= cap
  /\ Elems(l) \subseteq S
  /\ \A c \in S \ Elems(l) : Len(l) = cap /\ LexLess(l[cap], c)

SectionCandidates(page) ==
  LET m == SectionMatches(page)
  IN {c \in {CleanSection(m[i]) : i \in 1..Len(m)} : SectionKept(c)}

ResourceCandidates(page) ==
  LET m == ResourceMatches(page)
  IN {ResourceString(m[i]) : i \in {j \in 1..Len(m) : Len(m[j][2]) > 0}}

C10_SectionsAndResourcesCanonical ==
  html_pc = "returned" =>
    LET sections == SectionCandidates(html_page)
        resources == ResourceCandidates(html_page)
    IN /\ SmallestOf(html_info.sections, sections, MaxSections)
       /\ \A i \in 1..Len(html_info.sections) :
            /\ Len(html_info.sections[i]) > MinSectionLen
            /\ Len(html_info.sections[i]) < MaxSectionLen
       /\ SmallestOf(html_info.resources, resources, MaxResources)
       /\ (html_runs = 2 /\ SectionCandidates(html_prev_page) = sections) =>
            html_info.sections = html_prev.sections
       /\ (html_runs = 2 /\ ResourceCandidates(html_prev_page) = resources) =>
            html_info.resources = html_prev.resources

\* eleven headings parsed in ascending and then in descending page order:
\* the list is cut to ten both times
C10_Witness ==
  /\ html_pc = "returned"
  /\ html_runs = 2
  /\ html_prev_page # html_page
  /\ Len(html_parts) > MaxSections
  /\ html_parts[1] = HEl(Heading(Len(html_parts)))
  /\ Cardinality(SectionCandidates(html_page)) > MaxSections
  /\ SectionCandidates(html_prev_page) = SectionCandidates(html_page)
  /\ Len(html_info.sections) = MaxSections
  /\ html_info.sections[1] = Heading(1)
  /\ html_info.sections = html_prev.sections

----------------------------------------------------------------------------
(* HTTP.  A response is what requests.get / requests.head gives: either    *)
(* the call raises a requests.RequestException (raised), or it returns a   *)
(* response with a status code and a body.  The body is given by what      *)
(* response.json() parses it to (NotJson when it is not JSON) and by the   *)
(* page response.text holds.                                               *)

NotJson == [t |-> "invalid"]
Body(json, page) == [json |-> json, page |-> page]
Response(status_code, body) ==
  [raised |-> FALSE, status_code |-> status_code, body |-> body]
TransportError == [raised |-> TRUE, status_code |-> 0, body |-> Body(NotJson, <<>>)]

\* what one pass through a fetch loop's body does
Continue == [t |-> "continue"]
Return(v) == [t |-> "return", v |-> v]

guidelines == <<"anc", "base", "immunizations", "trust">>

url_patterns(guideline_name) ==
  << "http://build.fhir.org/ig/WorldHealthOrganization/smart-" \o guideline_name
       \o "/ImplementationGuide-smart-" \o guideline_name \o ".json",
     "http://build.fhir.org/ig/WorldHealthOrganization/smart-" \o guideline_name
       \o "/ImplementationGuide.json",
     "https://worldhealthorganization.github.io/smart-" \o guideline_name
       \o "/ImplementationGuide-smart-" \o guideline_name \o ".json",
     "https://worldhealthorganization.github.io/smart-" \o guideline_name
       \o "/ImplementationGuide.json",
     "http://smart.who.int/" \o guideline_name
       \o "/ImplementationGuide/smart.who.int." \o guideline_name \o ".json" >>

html_urls(guideline_name) ==
  << "http://build.fhir.org/ig/WorldHealthOrganization/smart-" \o guideline_name \o "/",
     "https://worldhealthorganization.github.io/smart-" \o guideline_name \o "/" >>

download_urls(guideline_name) ==
  << "http://build.fhir.org/ig/WorldHealthOrganization/smart-" \o guideline_name
       \o "/downloads.html",
     "https://worldhealthorganization.github.io/smart-" \o guideline_name
       \o "/downloads.html" >>

\* the dict endpoints, in insertion order
endpoints(guideline_name) ==
  << [name |-> "build_site",
      url |-> "http://build.fhir.org/ig/WorldHealthOrganization/smart-"
                \o guideline_name \o "/"],
     [name |-> "github_pages",
      url |-> "https://worldhealthorganization.github.io/smart-" \o guideline_name \o "/"],
     [name |-> "github_repo",
      url |-> "https://github.com/WorldHealthOrganization/smart-" \o guideline_name] >>

github_url(guideline_name) ==
  "https://api.github.com/repos/WorldHealthOrganization/smart-" \o guideline_name

\* the candidate URLs of a fetch method
CandidateUrls(method, guideline_name) ==
  CASE method = "fetch_smart_guideline" -> url_patterns(guideline_name)
    [] method = "fetch_guideline_html" -> html_urls(guideline_name)
    [] method = "fetch_downloads_info" -> download_urls(guideline_name)
    [] OTHER -> <<>>

\* response.json(): the parsed body; a body that is not JSON raises
\* requests.exceptions.JSONDecodeError, a RequestException, where the
\* installed requests has it, and a plain ValueError otherwise
JsonRaises(response) == response.body.json = NotJson

----------------------------------------------------------------------------
(* get_guideline_summary *)

SummaryFallback(guideline_name) ==
  Dict([name |-> guideline_name,
        description |-> "Repository information not available"])

SummaryMapped(repo_data) ==
  Dict([name        |-> Get(repo_data, "name", ""),
        description |-> Get(repo_data, "description", "No description available"),
        updated_at  |-> Get(repo_data, "updated_at", ""),
        html_url    |-> Get(repo_data, "html_url", ""),
        topics      |-> Get(repo_data, "topics", <<>>),
        language    |-> Get(repo_data, "language", ""),
        size        |-> Get(repo_data, "size", 0)])

\* mutant of get_guideline_summary: the status code is not looked at
get_guideline_summary_any_status(guideline_name, response, json_caught) ==
  IF response.raised THEN SummaryFallback(guideline_name)
  ELSE IF JsonRaises(response)
       THEN IF json_caught THEN SummaryFallback(guideline_name) ELSE Raise("ValueError")
  ELSE IF response.body.json.t # "dict" THEN Raise("AttributeError")
  ELSE SummaryMapped(response.body.json.v)

get_guideline_summary(guideline_name, response, json_caught) ==
  IF response.raised THEN SummaryFallback(guideline_name)
  ELSE IF response.status_code = 200
       THEN IF JsonRaises(response)
            THEN IF json_caught THEN SummaryFallback(guideline_name)
                 ELSE Raise("ValueError")
            ELSE IF response.body.json.t # "dict" THEN Raise("AttributeError")
            ELSE SummaryMapped(response.body.json.v)
  ELSE SummaryFallback(guideline_name)

----------------------------------------------------------------------------
(* check_guideline_availability *)

\* mutant of AvailabilityEntry: any 2xx status counts as accessible
AvailabilityEntryAny2xx(url, response) ==
  IF response.raised
  THEN [url |-> url, status |-> PyStr("error"), accessible |-> FALSE]
  ELSE [url |-> url, status |-> PyInt(response.status_code),
        accessible |-> response.status_code \in 200..299]

\* the entry availability[name] for the outcome of requests.head(url)
AvailabilityEntry(url, response) ==
  IF response.raised
  THEN [url |-> url, status |-> PyStr("error"), accessible |-> FALSE]
  ELSE [url |-> url, status |-> PyInt(response.status_code),
        accessible |-> response.status_code = 200]

\* availability[name] = entry
SetItem(d, key, value) ==
  [k \in DOMAIN d \cup {key} |-> IF k = key THEN value ELSE d[k]]

----------------------------------------------------------------------------
(* The body of the loop of each fetch method, for one candidate URL *)

\* mutant of fetch_smart_guideline_try: no except clause
fetch_smart_guideline_try_uncaught(response, json_caught) ==
  IF response.raised THEN Raise("RequestException")
  ELSE IF response.status_code = 200
       THEN IF JsonRaises(response)
            THEN IF json_caught THEN Raise("RequestException") ELSE Raise("ValueError")
            ELSE Return(response.body.json)
  ELSE Continue

fetch_smart_guideline_try(response, json_caught) ==
  IF response.raised THEN Continue
  ELSE IF response.status_code = 200
       THEN IF JsonRaises(response)
            THEN IF json_caught THEN Continue ELSE Raise("ValueError")
            ELSE Return(response.body.json)
  ELSE Continue

fetch_guideline_html_try(response, url) ==
  IF response.raised THEN Continue
  ELSE IF response.status_code = 200
       THEN Return(Dict(parse_implementation_guide_html(response.body.page, url)))
  ELSE Continue

fetch_downloads_info_try(response, url) ==
  IF response.raised THEN Continue
  ELSE IF response.status_code = 200
       THEN Return(Dict(parse_downloads_html(response.body.page, url)))
  ELSE Continue

----------------------------------------------------------------------------
(* What the servers may answer *)

\* the status codes of a response: OK, and two that are not 200
StatusCodes == {200, 204, 404}

RepoDoc ==
  [name |-> "smart-anc", description |-> "WHO ANC", topics |-> <<"fhir">>, size |-> 120]

GuideDoc ==
  [title |-> "ANC", dependsOn |-> <<[uri |-> "x"]>>,
   contained |-> <<[resourceType |-> "ValueSet", id |-> "v1"]>>]

\* <a href="report.json">JSON report</a><a href="full-ig">Full guide</a>NPM package
DownloadsPage ==
  AEl(<<114, 101, 112, 111, 114, 116, 46, 106, 115, 111, 110>>,
      <<74, 83, 79, 78, 32, 114, 101, 112, 111, 114, 116>>)
    \o AEl(<<102, 117, 108, 108, 45, 105, 103>>,
           <<70, 117, 108, 108, 32, 103, 117, 105, 100, 101>>)
    \o <<78, 80, 77, 32, 112, 97, 99, 107, 97, 103, 101>>

\* the bodies of a 200 answer: a JSON object, {}, null, a JSON array, 0, a
\* JSON string, not JSON
ApiBodies ==
  { Body(Dict(RepoDoc), <<>>), Body(Dict(EmptyDict), <<>>),
    Body(List(<<"smart-anc">>), <<>>), Body(NotJson, <<>>) }
JsonBodies ==
  { Body(Dict(GuideDoc), <<>>), Body(Dict(EmptyDict), <<>>), Body(None, <<>>),
    Body(List(<<"ANC">>), <<>>), Body(PyInt(0), <<>>), Body(PyStr("ANC"), <<>>),
    Body(NotJson, <<>>) }
HtmlBodies == { Body(NotJson, GuidePage), Body(NotJson, <<>>) }
DownloadBodies == { Body(NotJson, DownloadsPage), Body(NotJson, <<>>) }

\* the outcomes of one request: a transport error, a status that is not
\* 200, or 200 with one of the bodies
Outcomes(bodies) ==
  {TransportError}
    \cup {Response(c, Body(NotJson, <<>>)) : c \in StatusCodes \ {200}}
    \cup {Response(200, b) : b \in bodies}

\* the code-hosting API answers 404 with a JSON object
ApiResponses ==
  Outcomes(ApiBodies) \cup {Response(404, Body(Dict([message |-> "Not Found"]), <<>>))}
HeadResponses == Outcomes({Body(NotJson, <<>>)})
JsonResponses == Outcomes(JsonBodies)
HtmlResponses == Outcomes(HtmlBodies)
DownloadResponses == Outcomes(DownloadBodies)

----------------------------------------------------------------------------
(* main() *)

Init ==
  /\ pc = "summary" /\ gi = 1 /\ processed = <<>> /\ calls = <<>> /\ exc = ""
  /\ demo = ""
  /\ json_error_caught \in BOOLEAN
  /\ summary = None /\ api_log = <<>> /\ availability = EmptyDict /\ probe_log = <<>>
  /\ op = "" /\ cand = 0 /\ reqlog = <<>> /\ fetch_done = FALSE /\ ret = None
  /\ guideline_data = None /\ dak_content = None /\ html_content = None
  /\ downloads_info = None
  /\ DakIdle
  /\ HtmlIdle
  /\ DlIdle

\* a fetch method is entered: its loop starts at the first candidate
EnterFetch(method) ==
  /\ op' = method /\ cand' = 1 /\ reqlog' = <<>> /\ fetch_done' = FALSE /\ ret' = None
  /\ calls' = Append(calls, method)

\* an exception leaves main
Crash(e) == pc' = "crashed" /\ exc' = e

\* summary = smart_client.get_guideline_summary(guideline), and the prints
MainGetGuidelineSummary ==
  /\ pc = "summary"
  /\ \E r \in ApiResponses :
       LET o == get_guideline_summary(guidelines[gi], r, json_error_caught)
       IN /\ api_log' = <<r>>
          /\ IF o.t = "raise"
             THEN Crash(o.v) /\ summary' = None
             ELSE pc' = "availability" /\ exc' = exc /\ summary' = o
  /\ processed' = Append(processed, guidelines[gi])
  /\ calls' = Append(calls, "get_guideline_summary")
  /\ UNCHANGED <<gi, demo, json_error_caught, availability, probe_log, fetchVars,
                 dataVars, dakVars, htmlVars, dlVars>>

\* availability = smart_client.check_guideline_availability(guideline): one
\* pass through its loop, a HEAD request to the next endpoint
CheckGuidelineAvailability ==
  /\ pc = "availability"
  /\ LET i == Len(probe_log) + 1
         e == endpoints(guidelines[gi])[i]
     IN /\ \E r \in HeadResponses :
             /\ availability' = SetItem(availability, e.name, AvailabilityEntry(e.url, r))
             /\ probe_log' = Append(probe_log, r)
        /\ calls' = IF i = 1 THEN Append(calls, "check_guideline_availability") ELSE calls
        /\ pc' = IF i = Len(endpoints(guidelines[gi])) THEN "endpoints" ELSE pc
  /\ UNCHANGED <<gi, processed, exc, demo, json_error_caught, summary, api_log,
                 fetchVars, dataVars, dakVars, htmlVars, dlVars>>

\* the accessible endpoints are printed and fetch_smart_guideline is called;
\* summary and availability are not read again and are dropped here
MainFetchGuidelineData ==
  /\ pc = "endpoints"
  /\ EnterFetch("fetch_smart_guideline")
  /\ summary' = None /\ api_log' = <<>> /\ availability' = EmptyDict /\ probe_log' = <<>>
  /\ pc' = "fetch_json"
  /\ UNCHANGED <<gi, processed, exc, demo, json_error_caught, dataVars, dakVars, htmlVars, dlVars>>

\* fetch_smart_guideline: one pass through its loop; after the last
\* candidate the method returns None
FetchSmartGuideline ==
  /\ pc = "fetch_json"
  /\ \E r \in JsonResponses :
       LET urls == url_patterns(guidelines[gi])
           o == fetch_smart_guideline_try(r, json_error_caught)
       IN /\ reqlog' = Append(reqlog, [url |-> urls[cand], resp |-> r])
          /\ CASE o.t = "return" ->
                    /\ guideline_data' = o.v /\ ret' = o.v /\ fetch_done' = TRUE
                    /\ pc' = "json_returned" /\ UNCHANGED <<cand, exc>>
               [] o.t = "raise" ->
                    /\ Crash(o.v) /\ ret' = o /\ fetch_done' = TRUE
                    /\ UNCHANGED <<cand, guideline_data>>
               [] o.t = "continue" /\ cand < Len(urls) ->
                    /\ cand' = cand + 1
                    /\ UNCHANGED <<pc, exc, ret, fetch_done, guideline_data>>
               [] o.t = "continue" /\ cand = Len(urls) ->
                    /\ guideline_data' = None /\ ret' = None /\ fetch_done' = TRUE
                    /\ pc' = "json_returned" /\ UNCHANGED <<cand, exc>>
  /\ UNCHANGED <<gi, processed, calls, demo, json_error_caught, probeVars, op,
                 dak_content, html_content, downloads_info, dakVars, htmlVars, dlVars>>

\* mutant of JsonPathYielded: `if guideline_data is not None`
JsonPathYieldedNotNone(document) == document # None

\* `if guideline_data:` in main
JsonPathYielded(document) == Truthy(document)

\* dak_content = smart_client.process_dak_content(guideline_data), and the prints
MainProcessDak ==
  /\ pc = "json_returned"
  /\ JsonPathYielded(guideline_data)
  /\ LET o == process_dak_content(guideline_data)
     IN IF o.t = "raise"
        THEN Crash(o.v) /\ UNCHANGED dak_content
        ELSE pc' = "next" /\ dak_content' = o /\ UNCHANGED exc
  /\ calls' = Append(calls, "process_dak_content")
  /\ UNCHANGED <<gi, processed, demo, json_error_caught, probeVars, fetchVars,
                 guideline_data, html_content, downloads_info, dakVars, htmlVars, dlVars>>

\* the else branch: html_content = smart_client.fetch_guideline_html(guideline)
MainFallbackToHtml ==
  /\ pc = "json_returned"
  /\ ~JsonPathYielded(guideline_data)
  /\ EnterFetch("fetch_guideline_html")
  /\ pc' = "fetch_html"
  /\ UNCHANGED <<gi, processed, exc, demo, json_error_caught, probeVars, dataVars,
                 dakVars, htmlVars, dlVars>>

\* fetch_guideline_html: one pass through its loop
FetchGuidelineHtml ==
  /\ pc = "fetch_html"
  /\ \E r \in HtmlResponses :
       LET urls == html_urls(guidelines[gi])
           o == fetch_guideline_html_try(r, urls[cand])
       IN /\ reqlog' = Append(reqlog, [url |-> urls[cand], resp |-> r])
          /\ CASE o.t = "return" ->
                    /\ html_content' = o.v /\ ret' = o.v /\ fetch_done' = TRUE
                    /\ pc' = "html_returned" /\ UNCHANGED cand
               [] o.t = "continue" /\ cand < Len(urls) ->
                    /\ cand' = cand + 1
                    /\ UNCHANGED <<pc, ret, fetch_done, html_content>>
               [] o.t = "continue" /\ cand = Len(urls) ->
                    /\ html_content' = None /\ ret' = None /\ fetch_done' = TRUE
                    /\ pc' = "html_returned" /\ UNCHANGED cand
  /\ UNCHANGED <<gi, processed, calls, exc, demo, json_error_caught, probeVars, op,
                 guideline_data, dak_content, downloads_info, dakVars, htmlVars, dlVars>>

\* mutant of HtmlPathYielded: the downloads are looked for in any case
HtmlPathYieldedAlways(content) == TRUE

\* `if html_content:` in main
HtmlPathYielded(content) == Truthy(content)

\* `if html_content:`: the page summary is printed and
\* downloads_info = smart_client.fetch_downloads_info(guideline)
MainCheckDownloads ==
  /\ pc = "html_returned"
  /\ HtmlPathYielded(html_content)
  /\ EnterFetch("fetch_downloads_info")
  /\ pc' = "fetch_downloads"
  /\ UNCHANGED <<gi, processed, exc, demo, json_error_caught, probeVars, dataVars,
                 dakVars, htmlVars, dlVars>>

\* the else branch: "Could not access guideline content (JSON or HTML)"
MainNoContent ==
  /\ pc = "html_returned"
  /\ ~HtmlPathYielded(html_content)
  /\ pc' = "next"
  /\ UNCHANGED <<gi, processed, calls, exc, demo, json_error_caught, probeVars,
                 fetchVars, dataVars, dakVars, htmlVars, dlVars>>

\* fetch_downloads_info: one pass through its loop; on return main prints
\* the downloads
FetchDownloadsInfo ==
  /\ pc = "fetch_downloads"
  /\ \E r \in DownloadResponses :
       LET urls == download_urls(guidelines[gi])
           o == fetch_downloads_info_try(r, urls[cand])
       IN /\ reqlog' = Append(reqlog, [url |-> urls[cand], resp |-> r])
          /\ CASE o.t = "return" ->
                    /\ downloads_info' = o.v /\ ret' = o.v /\ fetch_done' = TRUE
                    /\ pc' = "next" /\ UNCHANGED cand
               [] o.t = "continue" /\ cand < Len(urls) ->
                    /\ cand' = cand + 1
                    /\ UNCHANGED <<pc, ret, fetch_done, downloads_info>>
               [] o.t = "continue" /\ cand = Len(urls) ->
                    /\ downloads_info' = None /\ ret' = None /\ fetch_done' = TRUE
                    /\ pc' = "next" /\ UNCHANGED cand
  /\ UNCHANGED <<gi, processed, calls, exc, demo, json_error_caught, probeVars, op,
                 guideline_data, dak_content, html_content, dakVars, htmlVars, dlVars>>

\* `for guideline in guidelines`: the next identifier; the locals of the
\* loop body are bound afresh before they are read
MainNextGuideline ==
  /\ pc = "next"
  /\ gi < Len(guidelines)
  /\ gi' = gi + 1
  /\ pc' = "summary"
  /\ calls' = <<>>
  /\ op' = "" /\ cand' = 0 /\ reqlog' = <<>> /\ fetch_done' = FALSE /\ ret' = None
  /\ guideline_data' = None /\ dak_content' = None /\ html_content' = None
  /\ downloads_info' = None
  /\ UNCHANGED <<processed, exc, demo, json_error_caught, probeVars, dakVars, htmlVars, dlVars>>

\* after the loop: the FHIR client demo (skipped without fhirclient; its
\* errors are caught and printed), then "Exploration complete!"
MainFhirDemo ==
  /\ pc = "next"
  /\ gi = Len(guidelines)
  /\ demo' \in {"not_available", "ran", "error_printed"}
  /\ pc' = "done"
  /\ UNCHANGED <<gi, processed, calls, exc, json_error_caught, probeVars, fetchVars,
                 dataVars, dakVars, htmlVars, dlVars>>

Next ==
  \/ MainGetGuidelineSummary
  \/ CheckGuidelineAvailability
  \/ MainFetchGuidelineData
  \/ FetchSmartGuideline
  \/ MainProcessDak
  \/ MainFallbackToHtml
  \/ FetchGuidelineHtml
  \/ MainCheckDownloads
  \/ MainNoContent
  \/ FetchDownloadsInfo
  \/ MainNextGuideline
  \/ MainFhirDemo

Spec == Init /\ [][Next]_vars

----------------------------------------------------------------------------
(* Claims about the fetch methods *)

FetchMethods == {"fetch_smart_guideline", "fetch_guideline_html", "fetch_downloads_info"}

Is200(response) == ~response.raised /\ response.status_code = 200
Failed(response) == response.raised \/ response.status_code # 200

\* what a fetch method returns for the response of the request `entry`
ContentOf(method, entry) ==
  CASE method = "fetch_smart_guideline" -> entry.resp.body.json
    [] method = "fetch_guideline_html" ->
         Dict(parse_implementation_guide_html(entry.resp.body.page, entry.url))
    [] method = "fetch_downloads_info" ->
         Dict(parse_downloads_html(entry.resp.body.page, entry.url))

(* C1: in every fetch method the candidates are requested in list order,   *)
(* the method stops at the first response with status 200 and returns      *)
(* that response's content, and no later candidate is requested.           *)
C1_StopsAtFirst200 ==
  op \in FetchMethods =>
    LET urls == CandidateUrls(op, guidelines[gi])
    IN /\ Len(reqlog) <= Len(urls)
       /\ \A i \in 1..Len(reqlog) : reqlog[i].url = urls[i]
       /\ \A i \in 1..Len(reqlog) :
            Is200(reqlog[i].resp) =>
              /\ i = Len(reqlog)
              /\ fetch_done
              /\ ret = ContentOf(op, reqlog[i])

(* C2: a candidate that answers non-200 or raises a transport error is     *)
(* skipped and not requested again (each URL is requested at most once     *)
(* per call); when every candidate has failed the method returns None and  *)
(* raises nothing.                                                         *)
C2_FailedCandidateSkippedOnce ==
  op \in FetchMethods =>
    LET urls == CandidateUrls(op, guidelines[gi])
        n == Len(reqlog)
    IN /\ \A i, j \in 1..n : i # j => reqlog[i].url # reqlog[j].url
       /\ \A i \in 1..n :
            Failed(reqlog[i].resp) =>
              /\ i < n => reqlog[i + 1].url = urls[i + 1]
              /\ (i = n /\ i < Len(urls)) => (~fetch_done /\ pc # "crashed")
       /\ (n = Len(urls) /\ \A i \in 1..n : Failed(reqlog[i].resp)) =>
            (fetch_done /\ ret = None /\ pc # "crashed")

\* all five JSON candidates failed, by transport errors and by non-200
\* answers, and fetch_smart_guideline returned None
C2_Witness ==
  /\ op = "fetch_smart_guideline"
  /\ fetch_done
  /\ Len(reqlog) = Len(url_patterns(guidelines[gi]))
  /\ \A i \in 1..Len(reqlog) : Failed(reqlog[i].resp)
  /\ \E i \in 1..Len(reqlog) : reqlog[i].resp.raised
  /\ \E i \in 1..Len(reqlog) : ~reqlog[i].resp.raised
  /\ ret = None
  /\ pc = "json_returned"

----------------------------------------------------------------------------
(* Claims about main *)

(* C3: no operation is fatal for main: whatever the outcome of each        *)
(* request, main processes 'anc', 'base', 'immunizations', 'trust' once    *)
(* each in that order and reaches completion.                              *)
C3_MainAlwaysCompletes ==
  /\ pc # "crashed"
  /\ \A i \in 1..Len(processed) : i <= Len(guidelines) /\ processed[i] = guidelines[i]
  /\ pc = "done" => processed = guidelines

IsPrefix(a, b) == Len(a) <= Len(b) /\ SubSeq(b, 1, Len(a)) = a

MainCallOrder ==
  <<"get_guideline_summary", "check_guideline_availability", "fetch_smart_guideline">>

(* C4: for each identifier main calls the repository lookup, the           *)
(* availability probe and the JSON fetch in this order; the guide page     *)
(* fetch is attempted exactly when the JSON fetch gave no document or an   *)
(* empty one, and never when it gave a non-empty document.                 *)
C4_HtmlFallbackExactlyWhenNoDocument ==
  pc # "idle" =>
    /\ IsPrefix(calls, MainCallOrder) \/ IsPrefix(MainCallOrder, calls)
    /\ Len(calls) > Len(MainCallOrder) =>
         /\ ~Truthy(guideline_data) => calls[Len(MainCallOrder) + 1] = "fetch_guideline_html"
         /\ Truthy(guideline_data) =>
              \A i \in 1..Len(calls) : calls[i] # "fetch_guideline_html"
    /\ pc \in {"next", "done"} => IsPrefix(MainCallOrder, calls)
    /\ (pc = "json_returned" /\ ~Truthy(guideline_data)) =>
         (ENABLED MainFallbackToHtml /\ ~ENABLED MainProcessDak)
    /\ (pc = "json_returned" /\ Truthy(guideline_data)) => ~ENABLED MainFallbackToHtml

\* the JSON fetch returned {} and a guide page has been requested
C4_Witness ==
  /\ guideline_data = Dict(EmptyDict)
  /\ calls = Append(MainCallOrder, "fetch_guideline_html")
  /\ op = "fetch_guideline_html"
  /\ Len(reqlog) = 1

(* C5: check_guideline_availability gives an entry for each of the three   *)
(* endpoints; an entry has accessible = true exactly when its own HEAD     *)
(* response has status 200; a transport failure gives status 'error' and   *)
(* accessible = false for that endpoint only; each entry is a function of  *)
(* its own endpoint's outcome.                                             *)
C5_AvailabilityPerEndpoint ==
  pc \in {"availability", "endpoints"} =>
    LET eps == endpoints(guidelines[gi])
    IN /\ DOMAIN availability = {eps[i].name : i \in 1..Len(probe_log)}
       /\ pc = "endpoints" =>
            DOMAIN availability = {"build_site", "github_pages", "github_repo"}
       /\ \A i \in 1..Len(probe_log) :
            LET r == probe_log[i]
                a == availability[eps[i].name]
            IN /\ a.url = eps[i].url
               /\ a.accessible = (~r.raised /\ r.status_code = 200)
               /\ r.raised => (a.status = PyStr("error") /\ ~a.accessible)
               /\ ~r.raised => a.status = PyInt(r.status_code)

\* the build site raised, the pages site answered 200, the repository 204
C5_Witness ==
  /\ pc = "endpoints"
  /\ probe_log[1].raised /\ Is200(probe_log[2]) /\ probe_log[3].status_code = 204
  /\ ~availability.build_site.accessible
  /\ availability.build_site.status = PyStr("error")
  /\ availability.github_pages.accessible
  /\ ~availability.github_repo.accessible

SummaryMappedFields ==
  {"name", "description", "updated_at", "html_url", "topics", "language", "size"}

(* C6: get_guideline_summary issues exactly one GET; on a non-200 response *)
(* or a transport error it returns the record with only the name (the      *)
(* identifier) and the not-available description; it returns the mapped    *)
(* field set only on a 200 response.                                       *)
C6_SummaryFallbackOnFailure ==
  (calls # <<>> /\ pc \in {"availability", "endpoints", "crashed"} /\ Len(calls) <= 2) =>
    /\ Len(api_log) = 1
    /\ Failed(api_log[1]) =>
         /\ pc # "crashed"
         /\ summary = Dict([name |-> guidelines[gi],
                            description |-> "Repository information not available"])
    /\ (summary # None /\ DOMAIN summary.v # {"name", "description"}) =>
         (Is200(api_log[1]) /\ DOMAIN summary.v = SummaryMappedFields)

\* the lookup for 'base' was answered 404 with a JSON object
C6_Witness ==
  /\ pc = "availability"
  /\ gi = 2
  /\ api_log = <<Response(404, Body(Dict([message |-> "Not Found"]), <<>>))>>
  /\ summary = Dict([name |-> "base",
                     description |-> "Repository information not available"])

----------------------------------------------------------------------------
(* parse_downloads_html called on its own, on pages of <a> elements        *)
(* followed by text                                                        *)

\* the bound on the number of <a> elements of a page
MaxAnchors == 2

\* relative and absolute targets, with and without a file extension, with
\* and without a keyword of each pattern: "report.json", "full-ig",
\* "http://example.org/full-ig", "Data.ZIP", "downloads/latest",
\* "http://example.org/package.tgz", "v1.2/validation",
\* "https://example.org/exports", "about.html"
DownloadHrefs ==
  { <<114, 101, 112, 111, 114, 116, 46, 106, 115, 111, 110>>,
    <<102, 117, 108, 108, 45, 105, 103>>,
    <<104, 116, 116, 112, 58, 47, 47, 101, 120, 97, 109, 112, 108, 101, 46, 111, 114, 103, 47, 102, 117, 108, 108, 45, 105, 103>>,
    <<68, 97, 116, 97, 46, 90, 73, 80>>,
    <<100, 111, 119, 110, 108, 111, 97, 100, 115, 47, 108, 97, 116, 101, 115, 116>>,
    <<104, 116, 116, 112, 58, 47, 47, 101, 120, 97, 109, 112, 108, 101, 46, 111, 114, 103, 47, 112, 97, 99, 107, 97, 103, 101, 46, 116, 103, 122>>,
    <<118, 49, 46, 50, 47, 118, 97, 108, 105, 100, 97, 116, 105, 111, 110>>,
    <<104, 116, 116, 112, 115, 58, 47, 47, 101, 120, 97, 109, 112, 108, 101, 46, 111, 114, 103, 47, 101, 120, 112, 111, 114, 116, 115>>,
    <<97, 98, 111, 117, 116, 46, 104, 116, 109, 108>> }

\* link texts longer than 3 characters, of 3 characters, and with
\* whitespace to strip and collapse: "JSON report", "zip", " Full   guide ",
\* "abc" between no-break spaces, "NPM" and "package" with two no-break
\* spaces between them
DownloadDescriptions ==
  { <<74, 83, 79, 78, 32, 114, 101, 112, 111, 114, 116>>,
    <<122, 105, 112>>,
    <<32, 70, 117, 108, 108, 32, 32, 32, 103, 117, 105, 100, 101, 32>>,
    <<160, 97, 98, 99, 160>>,
    <<78, 80, 77, 160, 160, 112, 97, 99, 107, 97, 103, 101>> }

DownloadAnchors == [href : DownloadHrefs, txt : DownloadDescriptions]

\* the texts after the <a> elements: none, "npm package",
\* "Validation package", and "FHIR" and "bundle" on two lines
DownloadTexts ==
  { <<>>,
    <<110, 112, 109, 32, 112, 97, 99, 107, 97, 103, 101>>,
    <<86, 97, 108, 105, 100, 97, 116, 105, 111, 110, 32, 112, 97, 99, 107, 97, 103, 101>>,
    <<70, 72, 73, 82, 10, 32, 98, 117, 110, 100, 108, 101>> }

\* the text of a page of <a> elements followed by text
DownloadsText(anchors, text) ==
  Flatten([i \in 1..Len(anchors) |-> AEl(anchors[i].href, anchors[i].txt)]) \o text

\* up to MaxAnchors <a> elements; and one element or none, followed by text
DownloadPages ==
  { [anchors |-> a, text |-> <<>>] : a \in SeqsUpTo(DownloadAnchors, MaxAnchors) }
    \cup { [anchors |-> a, text |-> t] :
             a \in SeqsUpTo(DownloadAnchors, 1), t \in DownloadTexts }

DownloadsSourceUrl ==
  "http://build.fhir.org/ig/WorldHealthOrganization/smart-anc/downloads.html"

DlInit ==
  /\ dl_pc = "call"
  /\ \E p \in DownloadPages :
       /\ dl_anchors = p.anchors
       /\ dl_page = DownloadsText(p.anchors, p.text)
  /\ dl_info = None
  /\ DakIdle
  /\ HtmlIdle
  /\ DrvIdle

\* parse_downloads_html(html_content, source_url)
ParseDownloadsHtml ==
  /\ dl_pc = "call"
  /\ dl_info' = Dict(parse_downloads_html(dl_page, DownloadsSourceUrl))
  /\ dl_pc' = "returned"
  /\ UNCHANGED <<dl_page, dl_anchors, dakVars, htmlVars, drvVars>>

DlNext == ParseDownloadsHtml

SpecDl == DlInit /\ [][DlNext]_vars

\* the text of url after its last '/', the whole of it when it has none
LastSegment(url) ==
  LET slashes == {i \in 1..Len(url) : url[i] = 47}
  IN IF slashes = {} THEN url ELSE SubSeq(url, MaxOf(slashes) + 1, Len(url))

\* a target has a file extension when its last segment holds a '.'
HasExtension(url) == \E i \in 1..Len(LastSegment(url)) : LastSegment(url)[i] = 46

AfterLastDot(url) ==
  SubSeq(url, MaxOf({i \in 1..Len(url) : url[i] = 46}) + 1, Len(url))

CleanDescription(txt) == CollapseWs(Strip(txt))

(* C11: the format of every recorded file is the lowercased text after the *)
(* last '.' of its href, and 'unknown' when the target has no file         *)
(* extension, for relative hrefs and for absolute URLs with a host name.   *)
C11_FormatIsExtensionOrUnknown ==
  dl_pc = "returned" =>
    \A i \in 1..Len(dl_info.v.files) :
      LET file == dl_info.v.files[i]
      IN file.format = IF HasExtension(file.url)
                       THEN Lower(AfterLastDot(file.url))
                       ELSE S_unknown

\* whether pattern n of download_patterns matches in the <a> element
AnchorMatches(n, anchor) ==
  MatchStarts(download_patterns[n], AEl(anchor.href, anchor.txt), TRUE) # {}

\* an <a> that the third pattern matches and neither of the first two
OnlyThirdPattern(anchor) ==
  AnchorMatches(3, anchor) /\ ~AnchorMatches(1, anchor) /\ ~AnchorMatches(2, anchor)

(* C12: an anchor whose href matches only the third pattern (it contains   *)
(* download, file or export) and whose description is longer than 3        *)
(* characters produces a file entry, as matches of the first two do.       *)
C12_ThirdPatternAnchorsRecorded ==
  dl_pc = "returned" =>
    \A i \in 1..Len(dl_anchors) :
      (OnlyThirdPattern(dl_anchors[i])
         /\ Len(CleanDescription(dl_anchors[i].txt)) > MinDescriptionLen) =>
        \E j \in 1..Len(dl_info.v.files) :
          /\ dl_info.v.files[j].url = dl_anchors[i].href
          /\ dl_info.v.files[j].description = CleanDescription(dl_anchors[i].txt)

----------------------------------------------------------------------------
(* C13: main attempts the downloads page fetch for an identifier only      *)
(* after fetch_guideline_html returned a summary for it, inside the        *)
(* fallback branch: never when the JSON fetch gave a document, nor when    *)
(* both guide page candidates failed.                                      *)
C13_DownloadsOnlyAfterGuidePageSummary ==
  pc # "idle" =>
    /\ (\E i \in 1..Len(calls) : calls[i] = "fetch_downloads_info") =>
         /\ calls = MainCallOrder \o <<"fetch_guideline_html", "fetch_downloads_info">>
         /\ ~Truthy(guideline_data)
         /\ html_content.t = "dict"
    /\ (pc = "html_returned" /\ html_content = None) =>
         (~ENABLED MainCheckDownloads /\ ENABLED MainNoContent)
    /\ op = "fetch_downloads_info" => html_content.t = "dict"

\* the guide page fetch returned a summary after the JSON fetch gave
\* nothing, and the first downloads candidate has been requested
C13_Witness ==
  /\ pc = "fetch_downloads"
  /\ guideline_data = None
  /\ html_content.t = "dict"
  /\ calls = MainCallOrder \o <<"fetch_guideline_html", "fetch_downloads_info">>
  /\ op = "fetch_downloads_info"
  /\ Len(reqlog) = 1

====
